---- MODULE Spec2Model ----
(***************************************************************************)
(* Model of the Modulaur plugin host (src-tauri/src/plugins/mod.rs,        *)
(* src-tauri/src/plugins/http.rs) and of the Tauri commands that drive it  *)
(* (src-tauri/src/main.rs).                                                *)
(*                                                                         *)
(* Specifications:                                                         *)
(*   Spec      PluginManager methods called one at a time on one manager   *)
(*             (the way setup() calls load_plugins before sharing it).     *)
(*   SpecCmd   the Tauri plugin commands of main.rs run by concurrent      *)
(*             tasks on the shared Arc<Mutex<PluginManager>>.              *)
(*   SpecCall  WasmPlugin::call_function on one loaded module, step by     *)
(*             step, with guest linear memory at byte level.               *)
(*   SpecFetch WasmPlugin::fetch and test_connection around                *)
(*             call_function, with the JSON text of configs and records.   *)
(*   SpecHttp  the host functions http.get and http.request called by a    *)
(*             running guest, with the remote server as environment.       *)
(*   SpecHttpFair  SpecHttp with the host thread scheduled fairly.         *)
(*   SpecCmdFair   SpecCmd with tasks scheduled fairly and servers that    *)
(*             respond.                                                    *)
(***************************************************************************)
EXTENDS Integers, Sequences, FiniteSets, TLC

(***************************************************************************)
(* Option<T> is a sequence of length 0 (None) or 1 (Some(x)).              *)
(***************************************************************************)
None == <<>>
Some(x) == <<x>>

(***************************************************************************)
(* HashMap<K, V> is a function whose domain is the set of keys.            *)
(***************************************************************************)
EmptyMap == [k \in {} |-> TRUE]
insert(map, k, v) == [x \in (DOMAIN map) \cup {k} |-> IF x = k THEN v ELSE map[x]]
remove(map, k) == [x \in (DOMAIN map) \ {k} |-> map[x]]

(***************************************************************************)
(* The plugin directory.                                                   *)
(***************************************************************************)
\* Largest number of entries the plugin directory holds.
MaxDirs == 3

\* manifest.json after serde_json::from_str. version stands for the
\* descriptive fields (version, author, description) that are copied
\* unchanged; frontend is frontend.is_some().
PluginManifest(name, version, backend, frontend) ==
    [name |-> name, version |-> version, backend |-> backend, frontend |-> frontend]

BackendConfig(type_, adapters) == [type_ |-> type_, adapters |-> adapters]

\* One entry of read_dir(plugin_dir): a plain file, or a package directory
\* with its manifest.json ("missing", "malformed" or "ok" with the parsed
\* manifest) and the file named by backend.entry ("absent", "corrupt": not a
\* module the engine compiles, or "good").
DirEntry(isDir, manifestFile, manifest, wasmFile) ==
    [isDir |-> isDir, manifestFile |-> manifestFile, manifest |-> manifest,
     wasmFile |-> wasmFile]

BlankManifest == PluginManifest("p1", 1, None, FALSE)

Package(manifest, wasmFile) == DirEntry(TRUE, "ok", manifest, wasmFile)

DirEntries ==
    { DirEntry(FALSE, "missing", BlankManifest, "absent"),
      DirEntry(TRUE, "missing", BlankManifest, "absent"),
      DirEntry(TRUE, "malformed", BlankManifest, "absent"),
      Package(PluginManifest("p1", 1, Some(BackendConfig("wasm", <<"a1">>)), FALSE), "good"),
      Package(PluginManifest("p1", 2, Some(BackendConfig("wasm", <<"a2", "a1">>)), TRUE), "good"),
      Package(PluginManifest("p1", 2, Some(BackendConfig("wasm", <<"a1">>)), FALSE), "absent"),
      Package(PluginManifest("p1", 2, Some(BackendConfig("wasm", <<"a1">>)), FALSE), "corrupt"),
      Package(PluginManifest("p1", 2, Some(BackendConfig("native", <<"a1">>)), FALSE), "good"),
      Package(PluginManifest("p1", 2, None, TRUE), "absent"),
      Package(PluginManifest("p1", 2, None, FALSE), "absent"),
      Package(PluginManifest("p2", 1, Some(BackendConfig("wasm", <<"a1">>)), FALSE), "good"),
      Package(PluginManifest("p2", 1, Some(BackendConfig("wasm", <<>>)), FALSE), "good"),
      Package(PluginManifest("p2", 1, None, TRUE), "absent") }

Names == {"p1", "p2"}

RECURSIVE SeqsUpTo(_, _)
SeqsUpTo(S, n) ==
    IF n = 0 THEN {<<>>}
    ELSE LET shorter == SeqsUpTo(S, n - 1)
         IN  shorter \cup {Append(s, x) : s \in shorter, x \in S}

Directories == SeqsUpTo(DirEntries, MaxDirs)

VARIABLES
    plugins,      \* PluginManager.plugins: name -> loaded backend plugin
    manifests,    \* PluginManager.manifests: name -> manifest
    dirExists,    \* plugin_dir.exists()
    dirEntries,   \* read_dir(plugin_dir), in the order the OS returns it
    lastOp        \* the last PluginManager method called and what it returned

mgrVars == <<plugins, manifests, dirExists, dirEntries, lastOp>>

VARIABLES
    shared,       \* the manager has been moved into AppState (setup is over)
    lock,         \* holder of the plugin_manager mutex, NoTask when free
    pc,           \* per task: where its command stands
    cmd,          \* per task: the command it runs, with its arguments
    local,        \* per task: the locals of the command
    ret,          \* the last command that returned: its task, name and Result
    db,           \* keys of the records held by the database
    started       \* number of commands invoked so far

cmdVars == <<shared, lock, pc, cmd, local, ret, db, started>>

VARIABLES
    module,       \* WasmPlugin.module: the compiled guest module of the plugin
    callers,      \* the callers that invoke the plugin (they may overlap)
    cpc,          \* per caller: where its call_function stands
    cin,          \* per caller: function_name, params, input_ptr, result_ptr
    store,        \* per caller: the Store of the call (guest memory, guest heap)
    rd,           \* per caller: result, offset and number of reads of the read loop
    cret,         \* per caller: what its last call_function returned
    dropped,      \* the Store dropped by the call_function that returned last
    mret,         \* per caller: what fetch / test_connection returned
    inputs        \* the byte strings the callers pass as params

callVars == <<module, callers, cpc, cin, store, rd, cret, dropped, mret, inputs>>

VARIABLES
    guest,      \* the instance that calls the host: its exports, memory, heap
    hpc,        \* position of the host function
    hcall,      \* imported function called and its i32 arguments
    hloc,       \* locals of the host function
    net,        \* the outbound request in flight, if any
    hret        \* the i32 handed back to the guest, if any

httpVars == <<guest, hpc, hcall, hloc, net, hret>>
vars == <<mgrVars, cmdVars, callVars, httpVars>>

(***************************************************************************)
(* PluginManager (plugins/mod.rs)                                          *)
(***************************************************************************)
Ok(v) == [ok |-> TRUE, val |-> v]
Err(e) == [ok |-> FALSE, val |-> e]

\* PluginMetadata built by load_plugin from the manifest.
PluginMetadata(manifest) ==
    [name |-> manifest.name,
     version |-> manifest.version,
     adapter_type |->
        IF manifest.backend[1].adapters = <<>> THEN None
        ELSE Some(Head(manifest.backend[1].adapters)),
     frontend |-> manifest.frontend]

\* WasmPlugin::load: Module::from_file fails on a file that is no module.
WasmPlugin_load(wasmFile, metadata) ==
    IF wasmFile = "good" THEN Ok([metadata |-> metadata])
    ELSE Err("Failed to load WASM module")

validate_permissions(manifest) == Ok(TRUE)

\* load_plugin that hands a backend of any type to the WebAssembly loader.
load_plugin_any_backend(pl, mf, e) ==
    IF e.manifestFile = "missing"
    THEN [plugins |-> pl, manifests |-> mf, result |-> Err("No manifest.json found")]
    ELSE IF e.manifestFile = "malformed"
    THEN [plugins |-> pl, manifests |-> mf, result |-> Err("Failed to parse manifest")]
    ELSE
      LET manifest == e.manifest
          mf2 == insert(mf, manifest.name, manifest)
      IN  IF manifest.backend = None
          THEN [plugins |-> pl, manifests |-> mf2, result |-> Ok(TRUE)]
          ELSE IF e.wasmFile = "absent"
          THEN [plugins |-> pl, manifests |-> mf2, result |-> Err("WASM file not found")]
          ELSE LET plugin == WasmPlugin_load(e.wasmFile, PluginMetadata(manifest))
               IN  IF ~plugin.ok
                   THEN [plugins |-> pl, manifests |-> mf2, result |-> Err(plugin.val)]
                   ELSE [plugins |-> insert(pl, manifest.name, plugin.val),
                         manifests |-> mf2, result |-> Ok(TRUE)]

\* load_plugin that registers the instance without recording the manifest.
load_plugin_unlisted(pl, mf, e) ==
    [load_plugin_any_backend(pl, mf, e) EXCEPT !.manifests = mf]

\* load_plugin(path): the tables after the call and the Result.
load_plugin(pl, mf, e) ==
    IF e.manifestFile = "missing"
    THEN [plugins |-> pl, manifests |-> mf, result |-> Err("No manifest.json found")]
    ELSE IF e.manifestFile = "malformed"
    THEN [plugins |-> pl, manifests |-> mf, result |-> Err("Failed to parse manifest")]
    ELSE
      LET manifest == e.manifest
          mf2 == insert(mf, manifest.name, manifest)
      IN  IF ~validate_permissions(manifest).ok
          THEN [plugins |-> pl, manifests |-> mf2, result |-> Err("permissions")]
          ELSE IF manifest.backend # None
          THEN IF manifest.backend[1].type_ = "wasm"
               THEN IF e.wasmFile = "absent"
                    THEN [plugins |-> pl, manifests |-> mf2,
                          result |-> Err("WASM file not found")]
                    ELSE LET plugin == WasmPlugin_load(e.wasmFile, PluginMetadata(manifest))
                         IN  IF ~plugin.ok
                             THEN [plugins |-> pl, manifests |-> mf2,
                                   result |-> Err(plugin.val)]
                             ELSE [plugins |-> insert(pl, manifest.name, plugin.val),
                                   manifests |-> mf2, result |-> Ok(TRUE)]
               ELSE [plugins |-> pl, manifests |-> mf2,
                     result |-> Err("Unsupported backend type")]
          ELSE [plugins |-> pl, manifests |-> mf2, result |-> Ok(TRUE)]

\* scan_entry counting only the packages that registered a backend instance.
scan_entry_backend_only(st, entries, i) ==
    IF ~entries[i].isDir THEN st
    ELSE LET r == load_plugin(st.plugins, st.manifests, entries[i])
             counted == r.result.ok /\ entries[i].manifest.backend # None
         IN  [plugins |-> r.plugins, manifests |-> r.manifests,
              count |-> IF counted THEN st.count + 1 ELSE st.count,
              visited |-> st.visited \cup {i},
              loaded |-> IF r.result.ok THEN st.loaded \cup {i} ELSE st.loaded]

\* scan_entry counting only the packages whose name was not registered yet.
scan_entry_new_only(st, entries, i) ==
    IF ~entries[i].isDir THEN st
    ELSE LET r == load_plugin(st.plugins, st.manifests, entries[i])
             counted == r.result.ok /\ DOMAIN r.manifests # DOMAIN st.manifests
         IN  [plugins |-> r.plugins, manifests |-> r.manifests,
              count |-> IF counted THEN st.count + 1 ELSE st.count,
              visited |-> st.visited \cup {i},
              loaded |-> IF r.result.ok THEN st.loaded \cup {i} ELSE st.loaded]

\* One iteration of the for loop of load_plugins over entry i; visited and
\* loaded record which entries load_plugin was called on and returned Ok for.
scan_entry(st, entries, i) ==
    IF ~entries[i].isDir THEN st
    ELSE LET r == load_plugin(st.plugins, st.manifests, entries[i])
         IN  [plugins |-> r.plugins, manifests |-> r.manifests,
              count |-> IF r.result.ok THEN st.count + 1 ELSE st.count,
              visited |-> st.visited \cup {i},
              loaded |-> IF r.result.ok THEN st.loaded \cup {i} ELSE st.loaded]

\* scan with the Err arm of the match returning from the loop.
RECURSIVE scan_stop_on_error(_, _, _)
scan_stop_on_error(st, entries, i) ==
    IF i > Len(entries) THEN st
    ELSE IF entries[i].isDir
            /\ ~load_plugin(st.plugins, st.manifests, entries[i]).result.ok
         THEN scan_entry(st, entries, i)
         ELSE scan_stop_on_error(scan_entry(st, entries, i), entries, i + 1)

RECURSIVE scan(_, _, _)
scan(st, entries, i) ==
    IF i > Len(entries) THEN st
    ELSE scan(scan_entry(st, entries, i), entries, i + 1)

\* load_plugins that reports a missing directory instead of creating it.
load_plugins_no_create(pl, mf, exists, entries) ==
    IF ~exists
    THEN [plugins |-> pl, manifests |-> mf, dirExists |-> FALSE,
          result |-> Err("Failed to read plugin directory"),
          visited |-> {}, loaded |-> {}]
    ELSE LET st == scan([plugins |-> pl, manifests |-> mf, count |-> 0,
                         visited |-> {}, loaded |-> {}], entries, 1)
         IN  [plugins |-> st.plugins, manifests |-> st.manifests, dirExists |-> TRUE,
              result |-> Ok(st.count), visited |-> st.visited, loaded |-> st.loaded]

\* load_plugins(): the tables, the directory and the Result after the call.
load_plugins(pl, mf, exists, entries) ==
    IF ~exists
    THEN [plugins |-> pl, manifests |-> mf, dirExists |-> TRUE, result |-> Ok(0),
          visited |-> {}, loaded |-> {}]
    ELSE LET st == scan([plugins |-> pl, manifests |-> mf, count |-> 0,
                         visited |-> {}, loaded |-> {}], entries, 1)
         IN  [plugins |-> st.plugins, manifests |-> st.manifests, dirExists |-> TRUE,
              result |-> Ok(st.count), visited |-> st.visited, loaded |-> st.loaded]

get_plugin(pl, name) == IF name \in DOMAIN pl THEN Some(pl[name]) ELSE None

\* WasmPlugin::shutdown
shutdown(plugin) == Ok(TRUE)

\* unload_plugin that shuts down and drops every instance.
unload_plugin_every(pl, name) ==
    IF name \in DOMAIN pl
    THEN [plugins |-> EmptyMap, result |-> Ok(TRUE)]
    ELSE [plugins |-> pl, result |-> Ok(TRUE)]

\* unload_plugin(name)
unload_plugin(pl, name) ==
    IF name \in DOMAIN pl
    THEN IF shutdown(pl[name]).ok
         THEN [plugins |-> remove(pl, name), result |-> Ok(TRUE)]
         ELSE [plugins |-> remove(pl, name), result |-> Err("shutdown")]
    ELSE [plugins |-> pl, result |-> Ok(TRUE)]

\* shutdown_all that iterates over the table without draining it.
shutdown_all_keeping(pl) ==
    [plugins |-> pl, result |-> Ok(TRUE), attempted |-> DOMAIN pl]

\* shutdown_all(): drain() empties the table whatever shutdown returns;
\* attempted are the names whose instance shutdown was called on.
shutdown_all(pl) ==
    [plugins |-> EmptyMap, result |-> Ok(TRUE), attempted |-> DOMAIN pl]

\* get_all_plugins that lists only the packages with a live instance.
get_all_plugins_loaded_only(pl, mf) ==
    [k \in {n \in DOMAIN mf : mf[n].name \in DOMAIN pl} |->
        [name |-> mf[k].name,
         version |-> mf[k].version,
         adapter_type |-> pl[mf[k].name].metadata.adapter_type,
         frontend |-> mf[k].frontend]]

\* get_all_plugins(): one PluginMetadata per entry of the manifest table
\* (the Vec, indexed here by the key of the entry it was mapped from).
get_all_plugins(pl, mf) ==
    [k \in DOMAIN mf |->
        LET manifest == mf[k]
            backend_metadata ==
                IF manifest.name \in DOMAIN pl THEN Some(pl[manifest.name].metadata)
                ELSE None
            declared ==
                IF manifest.backend = None THEN None
                ELSE IF manifest.backend[1].adapters = <<>> THEN None
                ELSE Some(Head(manifest.backend[1].adapters))
        IN  [name |-> manifest.name,
             version |-> manifest.version,
             adapter_type |->
                IF backend_metadata # None /\ backend_metadata[1].adapter_type # None
                THEN backend_metadata[1].adapter_type
                ELSE declared,
             frontend |-> manifest.frontend]]

\* get_plugin_by_adapter_type(type): the loop returns the first match in the
\* iteration order of the HashMap, which is unspecified, so every matching
\* plugin is a possible answer; None when nothing matches.
get_plugin_by_adapter_type(pl, adapter_type) ==
    LET matching == {n \in DOMAIN pl : pl[n].metadata.adapter_type = Some(adapter_type)}
    IN  IF matching = {} THEN {None} ELSE {Some(n) : n \in matching}

(***************************************************************************)
(* The commands of main.rs and the tasks that run them.                    *)
(***************************************************************************)
\* Number of tasks running commands concurrently.
NumTasks == 2
\* Largest number of http.get / http.request calls a guest makes in one call.
MaxHttpCalls == 1
\* Largest number of commands the frontend invokes in one run.
MaxCommands == 3

Tasks == 1..NumTasks
NoTask == 0

\* config.adapter_type of the AdapterConfig a command is given; "a3" is
\* declared by no package.
ConfigTypes == {"a1", "a2", "a3"}

\* Vec<StagedRecord> a guest may return, each record named by its database key.
RecordLists == {<<>>, <<"r1", "r2">>}

NoCmd == [name |-> "none"]
NoLocal ==
    [has_plugin |-> FALSE, plugin |-> None, http |-> 0, records |-> <<>>,
     entry |-> 0, count |-> 0]
NoRet == [task |-> NoTask, cmd |-> "none", result |-> Ok(TRUE)]

CmdIdle ==
    /\ shared = FALSE
    /\ lock = NoTask
    /\ pc = [t \in Tasks |-> "idle"]
    /\ cmd = [t \in Tasks |-> NoCmd]
    /\ local = [t \in Tasks |-> NoLocal]
    /\ ret = NoRet
    /\ db = {}
    /\ started = 0

\* Number of callers that may be inside the same plugin at once.
NumCalls == 2
Calls == 1..NumCalls

NoCall ==
    [function_name |-> "", params |-> <<>>, alloc_arg |-> None, input_ptr |-> 0,
     result_ptr |-> None]
NoRead == [result |-> <<>>, offset |-> 0, reads |-> 0]

CallIdle ==
    /\ cpc = [c \in Calls |-> "idle"]
    /\ cin = [c \in Calls |-> NoCall]
    /\ store = [c \in Calls |-> None]
    /\ rd = [c \in Calls |-> NoRead]
    /\ cret = [c \in Calls |-> None]
    /\ dropped = None
    /\ mret = [c \in Calls |-> None]

NoModule == [imports_ok |-> FALSE]

CallUnused == module = NoModule /\ callers = {} /\ inputs = {} /\ CallIdle

NoGuest == [exports_memory |-> FALSE, alloc |-> "missing", mem |-> <<>>, heap |-> 0]
NoHostCall ==
    [fn |-> "", url_ptr |-> 0, url_len |-> 0, method_ptr |-> 0, method_len |-> 0,
     headers_ptr |-> 0, headers_len |-> 0, body_ptr |-> 0, body_len |-> 0,
     result_ptr_ptr |-> 0]
NoHostLocals ==
    [url |-> None, method |-> None, headers_json |-> None, body |-> None,
     result |-> None, alloc_arg |-> None, result_ptr |-> None, error |-> None]

HttpIdle ==
    /\ hpc = "idle" /\ hcall = NoHostCall /\ hloc = NoHostLocals
    /\ net = None /\ hret = None

HttpUnused == guest = NoGuest /\ HttpIdle

(***************************************************************************)
(* Spec: the methods of one PluginManager, called one at a time.           *)
(***************************************************************************)
Init ==
    /\ plugins = EmptyMap
    /\ manifests = EmptyMap
    /\ dirExists \in BOOLEAN
    /\ dirEntries \in Directories
    /\ (~dirExists => dirEntries = <<>>)
    /\ lastOp = [op |-> "new"]
    /\ CmdIdle
    /\ CallUnused
    /\ HttpUnused

LoadPlugins ==
    LET r == load_plugins(plugins, manifests, dirExists, dirEntries)
    IN  /\ plugins' = r.plugins
        /\ manifests' = r.manifests
        /\ dirExists' = r.dirExists
        /\ lastOp' = [op |-> "load_plugins", result |-> r.result,
                      visited |-> r.visited, loaded |-> r.loaded,
                      pluginsBefore |-> plugins, manifestsBefore |-> manifests,
                      prevOp |-> lastOp.op]
        /\ UNCHANGED <<dirEntries, cmdVars, callVars, httpVars>>

\* What the reload_plugins command does to the manager under its guard:
\* shutdown_all()?, then load_plugins().
ReloadPlugins ==
    LET s == shutdown_all(plugins)
        r == load_plugins(s.plugins, manifests, dirExists, dirEntries)
    IN  /\ plugins' = r.plugins
        /\ manifests' = r.manifests
        /\ dirExists' = r.dirExists
        /\ lastOp' = [op |-> "reload_plugins", result |-> r.result,
                      visited |-> r.visited, loaded |-> r.loaded,
                      pluginsBefore |-> plugins, manifestsBefore |-> manifests]
        /\ UNCHANGED <<dirEntries, cmdVars, callVars, httpVars>>

UnloadPlugin ==
    \E name \in Names :
        LET r == unload_plugin(plugins, name)
        IN  /\ plugins' = r.plugins
            /\ lastOp' = [op |-> "unload_plugin", name |-> name, result |-> r.result,
                          pluginsBefore |-> plugins, manifestsBefore |-> manifests]
            /\ UNCHANGED <<manifests, dirExists, dirEntries, cmdVars, callVars, httpVars>>

ShutdownAll ==
    LET r == shutdown_all(plugins)
    IN  /\ plugins' = r.plugins
        /\ lastOp' = [op |-> "shutdown_all", result |-> r.result,
                      attempted |-> r.attempted,
                      pluginsBefore |-> plugins, manifestsBefore |-> manifests]
        /\ UNCHANGED <<manifests, dirExists, dirEntries, cmdVars, callVars, httpVars>>

\* The plugin directory is removed from the disk while the manager lives.
RemoveDirectory ==
    /\ dirExists
    /\ dirExists' = FALSE
    /\ dirEntries' = <<>>
    /\ lastOp' = [op |-> "remove_directory"]
    /\ UNCHANGED <<plugins, manifests, cmdVars, callVars, httpVars>>

\* One entry of the plugin directory is deleted while the manager lives.
RemovePackage ==
    /\ dirExists
    /\ \E i \in 1..Len(dirEntries) :
          dirEntries' = SubSeq(dirEntries, 1, i - 1)
                            \o SubSeq(dirEntries, i + 1, Len(dirEntries))
    /\ lastOp' = [op |-> "remove_package"]
    /\ UNCHANGED <<plugins, manifests, dirExists, cmdVars, callVars, httpVars>>

Next ==
    \/ LoadPlugins
    \/ ReloadPlugins
    \/ UnloadPlugin
    \/ ShutdownAll
    \/ RemoveDirectory
    \/ RemovePackage

Spec == Init /\ [][Next]_vars

(***************************************************************************)
(* Claims about load_plugins (Spec).                                       *)
(***************************************************************************)
\* A package directory load_plugin accepts, read off the package alone: a
\* manifest that parses and either no backend or a "wasm" backend whose
\* entry file is a module.
ValidPackage(e) ==
    /\ e.isDir
    /\ e.manifestFile = "ok"
    /\ \/ e.manifest.backend = None
       \/ /\ e.manifest.backend[1].type_ = "wasm"
          /\ e.wasmFile = "good"

HasBackend(e) == e.manifestFile = "ok" /\ e.manifest.backend # None

\* No entry after i declares the name of entry i.
LastOfName(entries, i) ==
    \A j \in (i + 1)..Len(entries) :
        ~(entries[j].isDir /\ entries[j].manifestFile = "ok"
          /\ entries[j].manifest.name = entries[i].manifest.name)

AfterLoadPlugins == lastOp.op = "load_plugins"

\* C1: load_plugins calls load_plugin on every immediate subdirectory, a
\* failing subdirectory does not stop the scan, the call returns Ok, and
\* every subdirectory holding a valid package is registered afterwards
\* (under its name, and with its own manifest and instance unless a later
\* subdirectory declares the same name).
C1_ScanVisitsAll ==
    AfterLoadPlugins =>
        /\ lastOp.result.ok
        /\ lastOp.visited = {i \in 1..Len(dirEntries) : dirEntries[i].isDir}
        /\ \A i \in 1..Len(dirEntries) :
              ValidPackage(dirEntries[i]) =>
                LET m == dirEntries[i].manifest
                IN  /\ m.name \in DOMAIN manifests
                    /\ HasBackend(dirEntries[i]) => m.name \in DOMAIN plugins
                    /\ LastOfName(dirEntries, i) =>
                          /\ manifests[m.name] = m
                          /\ HasBackend(dirEntries[i]) =>
                                plugins[m.name].metadata = PluginMetadata(m)

\* A scan in which a failing subdirectory comes before a valid one.
C1_Witness ==
    /\ AfterLoadPlugins
    /\ \E i, j \in 1..Len(dirEntries) :
          /\ i < j
          /\ dirEntries[i].isDir /\ ~ValidPackage(dirEntries[i])
          /\ ValidPackage(dirEntries[j]) /\ HasBackend(dirEntries[j])
          /\ j \in lastOp.loaded
          /\ dirEntries[j].manifest.name \in DOMAIN plugins

\* C10 as stated: the count returned by load_plugins is the number of
\* scanned subdirectories that registered a backend plugin instance in this
\* scan; packages registered as metadata only are not counted.
C10_CountsBackendOnly ==
    AfterLoadPlugins =>
        lastOp.result.val =
            Cardinality({i \in lastOp.loaded : HasBackend(dirEntries[i])})

\* C10 amended: the count returned by load_plugins is the number of scanned
\* subdirectories whose load_plugin returned Ok in this scan, the packages
\* registered as metadata only (frontend-only, or with neither backend nor
\* frontend) included.
C10_CountsEveryOk ==
    AfterLoadPlugins =>
        lastOp.result.val =
            Cardinality({i \in 1..Len(dirEntries) : ValidPackage(dirEntries[i])})

\* A scan that counted a metadata-only package next to a backend package.
C10_Witness ==
    /\ AfterLoadPlugins
    /\ lastOp.result.val = 2
    /\ \E i, j \in lastOp.loaded :
          /\ ~HasBackend(dirEntries[i])
          /\ HasBackend(dirEntries[j])

\* C11: after a scan, the manifest and the instance stored under one name
\* come from the same package: the instance was built from the manifest the
\* manifest table holds for that name, whatever the outcome of the backend
\* load of a later package declaring the name.
C11_SameNameSamePackage ==
    AfterLoadPlugins =>
        \A n \in DOMAIN plugins \cap DOMAIN manifests :
            /\ manifests[n].backend # None
            /\ plugins[n].metadata = PluginMetadata(manifests[n])

\* A package whose manifest parses and has a frontend section and no backend.
FrontendOnly(e) ==
    /\ e.isDir /\ e.manifestFile = "ok"
    /\ e.manifest.backend = None /\ e.manifest.frontend

\* C12: load_plugin of a manifest with no backend but a frontend section
\* returns Ok, records the manifest and creates no instance; afterwards
\* get_all_plugins lists the name and get_plugin(name) returns None.  The
\* package is the last one of the scan, so that the tables after the scan
\* are the tables after its load_plugin.
C12_FrontendOnlyIsMetadataOnly ==
    (AfterLoadPlugins /\ dirEntries # <<>> /\ FrontendOnly(dirEntries[Len(dirEntries)])) =>
        LET m == dirEntries[Len(dirEntries)].manifest
        IN  /\ Len(dirEntries) \in lastOp.loaded
            /\ m.name \in DOMAIN manifests
            /\ manifests[m.name] = m
            /\ \E k \in DOMAIN get_all_plugins(plugins, manifests) :
                  get_all_plugins(plugins, manifests)[k].name = m.name
            /\ get_plugin(plugins, m.name) = None

\* A package whose manifest parses and declares a backend that is not "wasm".
UnsupportedBackend(e) ==
    /\ e.isDir /\ e.manifestFile = "ok"
    /\ e.manifest.backend # None
    /\ e.manifest.backend[1].type_ # "wasm"

\* Entry j declares the name of entry i and a backend that loads.
LoadableTwin(entries, i, j) ==
    /\ j # i
    /\ ValidPackage(entries[j]) /\ HasBackend(entries[j])
    /\ entries[j].manifest.name = entries[i].manifest.name

\* C13: load_plugin of a manifest whose backend type is not "wasm" returns
\* an error and registers no instance under its name (an instance found
\* under the name afterwards was built from another package, and there is
\* none when no other package and no earlier scan provided one), and the
\* scan goes on to every later subdirectory.
C13_UnsupportedBackendRejected ==
    AfterLoadPlugins =>
        \A i \in 1..Len(dirEntries) :
            UnsupportedBackend(dirEntries[i]) =>
                LET m == dirEntries[i].manifest
                IN  /\ i \in lastOp.visited
                    /\ i \notin lastOp.loaded
                    /\ \A j \in (i + 1)..Len(dirEntries) :
                          dirEntries[j].isDir => j \in lastOp.visited
                    /\ m.name \in DOMAIN plugins =>
                          plugins[m.name].metadata # PluginMetadata(m)
                    /\ (/\ m.name \notin DOMAIN lastOp.pluginsBefore
                        /\ \A j \in 1..Len(dirEntries) : ~LoadableTwin(dirEntries, i, j)) =>
                          m.name \notin DOMAIN plugins

\* A scan in which a package with an unsupported backend type was rejected,
\* left no instance under its name, and a later package was still loaded.
C13_Witness ==
    /\ AfterLoadPlugins
    /\ \E i, j \in 1..Len(dirEntries) :
          /\ i < j
          /\ UnsupportedBackend(dirEntries[i])
          /\ i \in lastOp.visited /\ i \notin lastOp.loaded
          /\ dirEntries[i].manifest.name \notin DOMAIN plugins
          /\ j \in lastOp.loaded
          /\ dirEntries[j].manifest.name \in DOMAIN plugins

\* C14: for every loaded backend plugin and every adapter type listed in
\* the backend.adapters of its manifest, get_plugin_by_adapter_type(type)
\* returns a plugin that declares that type, and returns None only when no
\* loaded plugin declares the type.  The manifest of a loaded plugin is read
\* from the manifest table where the instance was built from that manifest.
C14_EveryDeclaredTypeFound ==
    AfterLoadPlugins =>
        \A n \in DOMAIN plugins \cap DOMAIN manifests :
            (HasBackend(Package(manifests[n], "good"))
             /\ plugins[n].metadata = PluginMetadata(manifests[n])) =>
                \A k \in 1..Len(manifests[n].backend[1].adapters) :
                    LET type == manifests[n].backend[1].adapters[k]
                    IN  \A found \in get_plugin_by_adapter_type(plugins, type) :
                            /\ found # None
                            /\ \E d \in 1..Len(manifests[found[1]].backend[1].adapters) :
                                  manifests[found[1]].backend[1].adapters[d] = type

\* C21: after unload_plugin(name), get_plugin(name) returns None, whatever
\* the shutdown of the instance returned, and the instance of every other
\* name is the one that was there before; unload_plugin of a name that has
\* no instance returns Ok and changes neither table.
C21_UnloadRemovesOnlyThatPlugin ==
    lastOp.op = "unload_plugin" =>
        /\ get_plugin(plugins, lastOp.name) = None
        /\ DOMAIN plugins = DOMAIN lastOp.pluginsBefore \ {lastOp.name}
        /\ \A n \in DOMAIN plugins : plugins[n] = lastOp.pluginsBefore[n]
        /\ manifests = lastOp.manifestsBefore
        /\ lastOp.name \notin DOMAIN lastOp.pluginsBefore =>
              (lastOp.result = Ok(TRUE) /\ plugins = lastOp.pluginsBefore)

\* One of two loaded plugins has been unloaded and the other is still there.
C21_Witness ==
    /\ lastOp.op = "unload_plugin"
    /\ lastOp.name \in DOMAIN lastOp.pluginsBefore
    /\ Cardinality(DOMAIN lastOp.pluginsBefore) = 2
    /\ Cardinality(DOMAIN plugins) = 1

Run(n, b) == [n |-> n, b |-> b]

\* Each operator below binds the values of its arguments first (v \in {x}),
\* so that an argument is evaluated once, whatever the number of places the
\* operator uses it in.

\* Two normal forms joined: the runs that meet are merged when they hold
\* the same byte.
Join(x, y) ==
    LET join(a, b) ==
            IF a = <<>> THEN b
            ELSE IF b = <<>> THEN a
            ELSE IF a[Len(a)].b = b[1].b
                 THEN SubSeq(a, 1, Len(a) - 1)
                      \o <<Run(a[Len(a)].n + b[1].n, b[1].b)>> \o Tail(b)
                 ELSE a \o b
    IN  CHOOSE z \in {join(v, w) : v \in {x}, w \in {y}} : TRUE

\* The normal form of a sequence of runs.
RECURSIVE Norm(_)
Norm(x) ==
    LET norm(r) ==
            IF Len(r) = 0 THEN <<>>
            ELSE IF Len(r) = 1 THEN (IF r[1].n = 0 THEN <<>> ELSE r)
            ELSE Join(Norm(SubSeq(r, 1, Len(r) \div 2)),
                      Norm(SubSeq(r, Len(r) \div 2 + 1, Len(r))))
    IN  CHOOSE z \in {norm(v) : v \in {x}} : TRUE

\* Vec::len
RECURSIVE ByteLen(_)
ByteLen(x) ==
    LET len(r) ==
            IF Len(r) = 0 THEN 0
            ELSE IF Len(r) = 1 THEN r[1].n
            ELSE ByteLen(SubSeq(r, 1, Len(r) \div 2))
                 + ByteLen(SubSeq(r, Len(r) \div 2 + 1, Len(r)))
    IN  CHOOSE z \in {len(v) : v \in {x}} : TRUE

\* Number of leading runs of x that lie within its first n bytes.
RECURSIVE RunsWithin(_, _)
RunsWithin(x, n) ==
    LET within(r, k) ==
            IF Len(r) = 0 THEN 0
            ELSE IF Len(r) = 1 THEN (IF r[1].n <= k THEN 1 ELSE 0)
            ELSE IF ByteLen(SubSeq(r, 1, Len(r) \div 2)) <= k
                 THEN Len(r) \div 2
                      + RunsWithin(SubSeq(r, Len(r) \div 2 + 1, Len(r)),
                                   k - ByteLen(SubSeq(r, 1, Len(r) \div 2)))
                 ELSE RunsWithin(SubSeq(r, 1, Len(r) \div 2), k)
    IN  CHOOSE z \in {within(v, w) : v \in {x}, w \in {n}} : TRUE

\* The first n bytes of x: m runs are taken whole, the next one in part.
TakeBytes(x, n) ==
    LET take(r, k, m) ==
            IF m = Len(r) \/ ByteLen(SubSeq(r, 1, m)) = k THEN SubSeq(r, 1, m)
            ELSE SubSeq(r, 1, m) \o <<Run(k - ByteLen(SubSeq(r, 1, m)), r[m + 1].b)>>
    IN  IF n <= 0 THEN <<>>
        ELSE CHOOSE z \in {take(v, w, RunsWithin(v, w)) : v \in {x}, w \in {n}} : TRUE

\* x without its first n bytes.
DropBytes(x, n) ==
    LET drop(r, k, m) ==
            IF m = Len(r) THEN <<>>
            ELSE IF ByteLen(SubSeq(r, 1, m)) = k THEN SubSeq(r, m + 1, Len(r))
            ELSE <<Run(r[m + 1].n - (k - ByteLen(SubSeq(r, 1, m))), r[m + 1].b)>>
                 \o SubSeq(r, m + 2, Len(r))
    IN  IF n <= 0 THEN x
        ELSE CHOOSE z \in {drop(v, w, RunsWithin(v, w)) : v \in {x}, w \in {n}} : TRUE

\* A Vec<u8> given byte by byte.
Bytes(s) == Norm([i \in 1..Len(s) |-> Run(1, s[i])])

\* chunk.iter().position(|&b| b == 0): -1 stands for None.
position_zero(x) ==
    LET position(r, zeros) ==
            IF zeros = {} THEN -1
            ELSE ByteLen(SubSeq(r, 1, (CHOOSE i \in zeros : \A j \in zeros : i <= j) - 1))
    IN  CHOOSE z \in {position(v, {i \in 1..Len(v) : v[i].b = 0}) : v \in {x}} : TRUE

\* Memory::read(store, offset, buffer of len bytes): Err when the range
\* leaves the memory.
Memory_read(mem, offset, len) ==
    LET read(m, o, n) ==
            IF o + n > ByteLen(m) THEN Err("out of bounds memory access")
            ELSE Ok(TakeBytes(DropBytes(m, o), n))
    IN  CHOOSE z \in {read(u, v, w) : u \in {mem}, v \in {offset}, w \in {len}} : TRUE

\* Memory::write(store, offset, buffer): the memory afterwards, Err when the
\* range leaves the memory.
Memory_write(mem, offset, buffer) ==
    LET write(m, o, buf) ==
            IF o + ByteLen(buf) > ByteLen(m) THEN Err("out of bounds memory access")
            ELSE Ok(Join(Join(TakeBytes(m, o), buf), DropBytes(m, o + ByteLen(buf))))
    IN  CHOOSE z \in {write(u, v, w) : u \in {mem}, v \in {offset}, w \in {buffer}} : TRUE

(***************************************************************************)
(* JSON (serde_json).  A text is a sequence of byte values; a                *)
(* serde_json::Value is [json |-> kind, v |-> payload], an object's payload *)
(* being a function from its keys to Values.                               *)
(***************************************************************************)
\* str::as_bytes for the strings of the runs; none holds a character that
\* serde_json escapes.
Utf8(s) ==
    CASE s = "adapter_type" -> <<97, 100, 97, 112, 116, 101, 114, 95, 116, 121, 112, 101>>
      [] s = "source" -> <<115, 111, 117, 114, 99, 101>>
      [] s = "endpoint" -> <<101, 110, 100, 112, 111, 105, 110, 116>>
      [] s = "auth" -> <<97, 117, 116, 104>>
      [] s = "parameters" -> <<112, 97, 114, 97, 109, 101, 116, 101, 114, 115>>
      [] s = "polling_interval" -> <<112, 111, 108, 108, 105, 110, 103, 95, 105, 110, 116, 101, 114, 118, 97, 108>>
      [] s = "enabled" -> <<101, 110, 97, 98, 108, 101, 100>>
      [] s = "record_type" -> <<114, 101, 99, 111, 114, 100, 95, 116, 121, 112, 101>>
      [] s = "timestamp" -> <<116, 105, 109, 101, 115, 116, 97, 109, 112>>
      [] s = "data" -> <<100, 97, 116, 97>>
      [] s = "metadata" -> <<109, 101, 116, 97, 100, 97, 116, 97>>
      [] s = "tags" -> <<116, 97, 103, 115>>
      [] s = "status" -> <<115, 116, 97, 116, 117, 115>>
      [] s = "title" -> <<116, 105, 116, 108, 101>>
      [] s = "description" -> <<100, 101, 115, 99, 114, 105, 112, 116, 105, 111, 110>>
      [] s = "error" -> <<101, 114, 114, 111, 114>>
      [] s = "a1" -> <<97, 49>>
      [] s = "a2" -> <<97, 50>>
      [] s = "s1" -> <<115, 49>>
      [] s = "s2" -> <<115, 50>>
      [] s = "http://h/" -> <<104, 116, 116, 112, 58, 47, 47, 104, 47>>
      [] s = "echo" -> <<101, 99, 104, 111>>
      [] s = "2024-01-01T00:00:00Z" -> <<50, 48, 50, 52, 45, 48, 49, 45, 48, 49, 84, 48, 48, 58, 48, 48, 58, 48, 48, 90>>
      [] s = "boom" -> <<98, 111, 111, 109>>
      [] s = "null" -> <<110, 117, 108, 108>>
      [] s = "true" -> <<116, 114, 117, 101>>
      [] s = "false" -> <<102, 97, 108, 115, 101>>
      [] s = "" -> <<>>

\* Decimal digits of a number, as serde_json prints it.
RECURSIVE Digits(_)
Digits(n) == IF n < 10 THEN <<48 + n>> ELSE Digits(n \div 10) \o <<48 + (n % 10)>>

JString(s) == <<34>> \o Utf8(s) \o <<34>>

\* "k1":t1,"k2":t2,... for the members <<k, t>> in the given order.
RECURSIVE JMembers(_)
JMembers(ms) ==
    IF ms = <<>> THEN <<>>
    ELSE JString(ms[1][1]) \o <<58>> \o ms[1][2]
         \o (IF Len(ms) = 1 THEN <<>> ELSE <<44>> \o JMembers(Tail(ms)))

JObject(ms) == <<123>> \o JMembers(ms) \o <<125>>

JNull == [json |-> "null", v |-> <<>>]
JBool(b) == [json |-> "bool", v |-> b]
JNumber(n) == [json |-> "number", v |-> n]
JStr(s) == [json |-> "string", v |-> s]
JObj(members) == [json |-> "object", v |-> members]

\* The fields of AdapterConfig in the order of the struct, which is the
\* order #[derive(Serialize)] writes them in, and in the order of the keys
\* of a Value::Object (a BTreeMap).
FieldOrder ==
    <<"adapter_type", "source", "endpoint", "auth", "parameters", "polling_interval",
      "enabled">>
SortedOrder ==
    <<"adapter_type", "auth", "enabled", "endpoint", "parameters", "polling_interval",
      "source">>

\* The text of a Value, the members of an object in the given order of keys.
RECURSIVE value_text(_, _)
value_text(v, order) ==
    CASE v.json = "null" -> Utf8("null")
      [] v.json = "bool" -> Utf8(IF v.v THEN "true" ELSE "false")
      [] v.json = "number" -> Digits(v.v)
      [] v.json = "string" -> JString(v.v)
      [] v.json = "object" ->
            LET keys == SelectSeq(order, LAMBDA k : k \in DOMAIN v.v)
            IN  JObject([i \in 1..Len(keys) |->
                            <<keys[i], value_text(v.v[keys[i]], order)>>])

AdapterConfig(adapter_type, source, endpoint, parameters, polling_interval, enabled) ==
    [adapter_type |-> adapter_type, source |-> source, endpoint |-> endpoint,
     auth |-> None, parameters |-> parameters, polling_interval |-> polling_interval,
     enabled |-> enabled]

\* The AdapterConfigs the callers pass.
AdapterConfigs ==
    { AdapterConfig("a1", "s1", "http://h/", JNull, None, TRUE),
      AdapterConfig("a2", "s2", "", JObj(EmptyMap), Some(60), FALSE) }

\* serde_json::to_value(config)
to_value(config) ==
    JObj([adapter_type |-> JStr(config.adapter_type),
          source |-> JStr(config.source),
          endpoint |-> JStr(config.endpoint),
          auth |-> JNull,
          parameters |-> config.parameters,
          polling_interval |->
              IF config.polling_interval = None THEN JNull
              ELSE JNumber(config.polling_interval[1]),
          enabled |-> JBool(config.enabled)])

\* serde_json::to_vec(config).  The text holds no zero byte.
to_vec(config) == Bytes(value_text(to_value(config), FieldOrder))

\* StagedRecord with id None and the metadata of StagedRecord::new.
StagedRecord(record_type, source, timestamp, data) ==
    [id |-> None, record_type |-> record_type, source |-> source,
     timestamp |-> timestamp, data |-> data,
     metadata |-> [tags |-> <<>>, status |-> None, title |-> None, description |-> None]]

\* The text of the record a guest of the runs returns, around the text of
\* its data.
RecordHead ==
    <<123>> \o JMembers(<<<<"record_type", JString("echo")>>, <<"source", JString("echo")>>,
                          <<"timestamp", JString("2024-01-01T00:00:00Z")>>>>)
    \o <<44>> \o JString("data") \o <<58>>
RecordTail ==
    <<44>> \o JString("metadata") \o <<58>>
    \o JObject(<<<<"tags", <<91, 93>>>>, <<"status", Utf8("null")>>,
                 <<"title", Utf8("null")>>, <<"description", Utf8("null")>>>>)
    \o <<125>>

\* create_error_response(message) of the adapter template: {"error":message}
create_error_response(message) == JObject(<<<<"error", JString(message)>>>>)

\* The Values a record of the runs carries as data, and the texts that
\* serde_json parses to each of them: its members in either order.
DataValues == {JNull} \cup {to_value(config) : config \in AdapterConfigs}
ValueTexts(v) == {value_text(v, FieldOrder), value_text(v, SortedOrder)}

\* The texts that serde_json::from_slice::<Vec<StagedRecord>> accepts among
\* the texts the guests of the runs return, each with the Vec it yields.
Decodable ==
    {[text |-> Bytes(<<91, 93>>), value |-> <<>>]}
    \cup UNION {{[text |-> Bytes(<<91>> \o RecordHead \o t \o RecordTail \o <<93>>),
                   value |-> <<StagedRecord("echo", "echo", "2024-01-01T00:00:00Z", v)>>] :
                  t \in ValueTexts(v)} : v \in DataValues}

\* serde_json::from_slice::<Vec<StagedRecord>>(bytes)
from_slice(bytes) ==
    IF \E d \in Decodable : d.text = bytes
    THEN Ok((CHOOSE d \in Decodable : d.text = bytes).value)
    ELSE Err("Failed to deserialize plugin result")

\* fetch that takes a result it cannot decode for an empty list.
fetch_lenient(result) ==
    IF ~result.ok THEN result
    ELSE IF from_slice(result.val).ok THEN from_slice(result.val) ELSE Ok(<<>>)

\* WasmPlugin::fetch after call_function("plugin_fetch", config_json) has
\* returned result.
fetch(result) ==
    IF ~result.ok THEN result
    ELSE LET records == from_slice(result.val)
         IN  IF ~records.ok THEN Err(records.val) ELSE Ok(records.val)

\* test_connection that reads the text the guest returned.
test_connection_reading(result) ==
    IF ~result.ok THEN result ELSE Ok(result.val = Bytes(Utf8("true")))

\* WasmPlugin::test_connection after
\* call_function("plugin_test_connection", config_json) has returned result.
test_connection(result) ==
    IF ~result.ok THEN result ELSE Ok(result.val # <<>>)

(***************************************************************************)
(* Reading the arguments of a host function out of guest memory            *)
(* (plugins/http.rs).                                                      *)
(***************************************************************************)
I32_MIN == -2147483647 - 1

\* `x as usize` for an i32 x on a 64-bit host: sign extension. The value is
\* low + (IF top THEN 2^64 - 2^31 ELSE 0); top says that bits 31..63 are set.
as_usize(x) == [top |-> x < 0, low |-> IF x < 0 THEN x - I32_MIN ELSE x]

\* vec![0u8; len]: capacity overflow panic when len exceeds isize::MAX.
vec_zeroed_panics(len) == len.top

\* Memory::read / Memory::write at a usize offset.
Memory_read_at(mem, ptr, len) ==
    IF ptr.top THEN Err("out of bounds memory access") ELSE Memory_read(mem, ptr.low, len)

Memory_write_at(mem, ptr, buffer) ==
    IF ptr.top THEN Err("out of bounds memory access")
    ELSE Memory_write(mem, ptr.low, buffer)

\* String::from_utf8 for the bytes of the runs: ASCII and the byte 0xFF,
\* which no UTF-8 sequence contains.
String_from_utf8(bytes) ==
    IF \E i \in 1..Len(bytes) : bytes[i].b >= 128 THEN Err("invalid utf-8") ELSE Ok(bytes)

\* read_bytes_from_memory(caller, memory, ptr, len): "panic", or a Result.
read_bytes_from_memory(mem, ptr, len) ==
    IF vec_zeroed_panics(len) THEN [panic |-> TRUE, res |-> Err("capacity overflow")]
    ELSE [panic |-> FALSE, res |-> Memory_read_at(mem, ptr, len.low)]

\* read_string_from_memory(caller, memory, ptr, len)
read_string_from_memory(mem, ptr, len) ==
    LET r == read_bytes_from_memory(mem, ptr, len)
    IN  IF r.panic \/ ~r.res.ok THEN r
        ELSE [panic |-> FALSE, res |-> String_from_utf8(r.res.val)]

(***************************************************************************)
(* Guest modules.                                                          *)
(***************************************************************************)
MAX_RESULT_SIZE == 10 * 1024 * 1024
CHUNK_SIZE == 4096
\* Offset used for the input when the guest exports no alloc.
FALLBACK_OFFSET == 1024
\* Size of one page of WebAssembly linear memory.
WasmPage == 64 * 1024

\* Linear memory of `pages` pages, zero except for the data segments, each
\* [at |-> offset, data |-> bytes].
RECURSIVE WithSegments(_, _)
WithSegments(mem, segments) ==
    IF segments = <<>> THEN mem
    ELSE WithSegments(Memory_write(mem, Head(segments).at, Head(segments).data).val,
                      Tail(segments))

Image(pages, segments) == WithSegments(<<Run(pages * WasmPage, 0)>>, segments)

\* A string of len non-zero bytes (a first half of 65s, then 66s), with or
\* without its NUL terminator, followed by bytes that are no part of it.
CString(len, terminated) ==
    Norm(<<Run(len - (len \div 2), 65), Run(len \div 2, 66)>>
         \o (IF terminated THEN <<Run(1, 0), Run(4, 67)>> ELSE <<>>))

\* A compiled module: whether every import resolves against the linker
\* (WASI preview1, http.get, http.request), its exports, its initial
\* memory, the first address its allocator hands out, and what its entry
\* functions do:
\*   "static"   returns the offset ptr of a string of its data segment;
\*   "stateful" reads the byte at cell, overwrites it with 9, writes the byte
\*              it read as a one-byte string at offset out and returns out,
\*              or traps after overwriting the cell;
\*   "echo"     reads the string at input_ptr and returns a JSON list of one
\*              record whose data is that string, written where its
\*              allocator has free space.
GuestModule(imports_ok, exports_memory, has_alloc, has_free_string, entries, image, heap, entry) ==
    [imports_ok |-> imports_ok, exports_memory |-> exports_memory,
     has_alloc |-> has_alloc, has_free_string |-> has_free_string,
     entries |-> entries, image |-> image, heap |-> heap, entry |-> entry]

HostEntries == {"plugin_fetch", "plugin_test_connection"}

StaticModule(pages, ptr, len, terminated, has_free_string) ==
    GuestModule(TRUE, TRUE, FALSE, has_free_string, HostEntries,
                Image(pages, <<[at |-> ptr, data |-> CString(len, terminated)]>>),
                0, [kind |-> "static", ptr |-> ptr])

\* A static module whose offset lies outside its memory.
WildModule(ptr) ==
    GuestModule(TRUE, TRUE, FALSE, FALSE, HostEntries, Image(1, <<>>), 0,
                [kind |-> "static", ptr |-> ptr])

StatefulModule ==
    GuestModule(TRUE, TRUE, TRUE, TRUE, HostEntries,
                Image(1, <<[at |-> 512, data |-> Bytes(<<7>>)]>>), 4096,
                [kind |-> "stateful", cell |-> 512, out |-> 2048])

\* Modules called by one caller at a time: strings at chunk boundaries, at
\* the end of memory, around the cap, and unterminated.
StaticModules ==
    { StaticModule(1, 2048, 3, TRUE, TRUE),
      StaticModule(1, 2048, 0, TRUE, FALSE),
      StaticModule(1, 2048, CHUNK_SIZE - 1, TRUE, FALSE),
      StaticModule(1, 2048, CHUNK_SIZE, TRUE, FALSE),
      StaticModule(1, 2048, CHUNK_SIZE + 1, TRUE, TRUE),
      StaticModule(1, WasmPage - 8, 3, TRUE, FALSE),
      StaticModule(1, WasmPage - CHUNK_SIZE, CHUNK_SIZE - 5, TRUE, FALSE),
      StaticModule(1, WasmPage - CHUNK_SIZE - 8, CHUNK_SIZE, TRUE, FALSE),
      StaticModule(1, WasmPage - CHUNK_SIZE, CHUNK_SIZE, FALSE, FALSE),
      StaticModule(256, 4096, MAX_RESULT_SIZE - 1, TRUE, FALSE),
      StaticModule(256, 4096, MAX_RESULT_SIZE, TRUE, FALSE),
      StaticModule(256, 4096, MAX_RESULT_SIZE + 1, TRUE, TRUE),
      StaticModule(256, 4096, 256 * WasmPage - 4096, FALSE, FALSE),
      WildModule(WasmPage),
      WildModule(2^30) }

\* A module with an allocator whose first address is heap, possibly at or
\* beyond the end of its one page of memory.
AllocModule(heap) ==
    GuestModule(TRUE, TRUE, TRUE, TRUE, HostEntries,
                Image(1, <<[at |-> 2048, data |-> CString(3, TRUE)]>>), heap,
                [kind |-> "static", ptr |-> 2048])

\* A module whose entry functions call http.get(url_ptr, url_len, ..) on
\* two bytes that are no UTF-8 and return a string of the data segment
\* whatever the host function returned.
HostCallModule(url_len) ==
    GuestModule(TRUE, TRUE, FALSE, FALSE, HostEntries,
                Image(1, <<[at |-> 200, data |-> Bytes(<<255, 104>>)],
                           [at |-> 2048, data |-> CString(3, TRUE)]>>), 0,
                [kind |-> "http_get", url_ptr |-> 200, url_len |-> url_len, ptr |-> 2048])

\* A module without alloc that exports a memory of no page.
EmptyMemoryModule ==
    GuestModule(TRUE, TRUE, FALSE, TRUE, HostEntries, <<>>, 0,
                [kind |-> "static", ptr |-> 0])

\* Modules that misbehave towards call_function: blocks handed out at the
\* end of memory or outside it, host functions called with a length that
\* is fine or negative, and a memory too small for the fallback offset.
MisbehavingModules ==
    { AllocModule(WasmPage - 3), AllocModule(WasmPage - 1), AllocModule(WasmPage),
      AllocModule(2^30), HostCallModule(2), HostCallModule(-1), EmptyMemoryModule }

\* Modules called by overlapping callers.
SharedModules ==
    { StatefulModule,
      [StatefulModule EXCEPT !.imports_ok = FALSE],
      [StatefulModule EXCEPT !.exports_memory = FALSE],
      [StatefulModule EXCEPT !.entries = {"fetch", "test_connection"}] }

\* A module whose entry functions return the offset of the given text,
\* which its data segment holds with a NUL terminator.
JsonModule(text) ==
    GuestModule(TRUE, TRUE, FALSE, FALSE, HostEntries,
                Image(1, <<[at |-> 2048, data |-> Bytes(text \o <<0>>)]>>),
                0, [kind |-> "static", ptr |-> 2048])

\* A module that echoes its input, with or without an exported alloc; the
\* memory the input is written to (the heap from 4096 on, or the fallback
\* offset) holds non-zero bytes left behind by earlier use.
EchoModule(has_alloc) ==
    GuestModule(TRUE, TRUE, has_alloc, TRUE, HostEntries,
                Image(1, <<[at |-> FALLBACK_OFFSET, data |-> <<Run(4 * CHUNK_SIZE, 35)>>]>>),
                IF has_alloc THEN CHUNK_SIZE ELSE 2 * CHUNK_SIZE, [kind |-> "echo"])

\* Modules called through fetch and test_connection by one caller at a
\* time, which return an empty list, a list of one record, the error object of the
\* adapter template, a list of something that is no record, the text true,
\* an empty text, a text that is no JSON, and the echoing modules.
FetchModules ==
    { JsonModule(<<>>),
      JsonModule(Utf8("boom")),
      JsonModule(<<91, 93>>),
      JsonModule(<<91>> \o RecordHead \o Utf8("null") \o RecordTail \o <<93>>),
      JsonModule(create_error_response("boom")),
      JsonModule(<<91>> \o create_error_response("boom") \o <<93>>),
      JsonModule(Utf8("true")),
      EchoModule(TRUE),
      EchoModule(FALSE) }

\* params of call_function in the runs that call it with byte strings of
\* its caller's choice: texts without a zero byte.
ParamsSet == { Bytes(<<123, 49, 125>>), Bytes(<<123, 50, 50, 125>>) }

\* params of call_function in the runs that call it through fetch and
\* test_connection: serde_json::to_vec(config).
ConfigParams == {to_vec(config) : config \in AdapterConfigs}

(***************************************************************************)
(* What the guest does when the host calls one of its exports: the set of  *)
(* possible outcomes [trap, ret, store].                                   *)
(***************************************************************************)
\* alloc(size): a bump allocator (the addresses stay far below 2^32); when
\* the block does not fit into memory the guest traps or returns the
\* address all the same.
guest_alloc(m, st, size) ==
    IF st.heap + size <= ByteLen(st.mem)
    THEN {[trap |-> FALSE, ret |-> st.heap, store |-> [st EXCEPT !.heap = st.heap + size]]}
    ELSE {[trap |-> TRUE, ret |-> 0, store |-> st],
          [trap |-> FALSE, ret |-> st.heap, store |-> st]}

\* plugin_fetch(input_ptr) / plugin_test_connection(input_ptr); panic says
\* that a host function the guest called panicked, which unwinds through
\* the guest into func.call.
guest_entry(m, st, input_ptr) ==
    IF m.entry.kind = "static"
    THEN {[trap |-> FALSE, panic |-> FALSE, ret |-> m.entry.ptr, store |-> st]}
    ELSE IF m.entry.kind = "http_get"
    THEN LET url == read_string_from_memory(st.mem, as_usize(m.entry.url_ptr),
                                            as_usize(m.entry.url_len))
         IN  {[trap |-> FALSE, panic |-> url.panic, ret |-> m.entry.ptr, store |-> st]}
    ELSE IF m.entry.kind = "echo"
    THEN LET rest == DropBytes(st.mem, input_ptr)
             z == position_zero(rest)
             input == IF z = -1 THEN rest ELSE TakeBytes(rest, z)
             text == Norm(Bytes(<<91>> \o RecordHead) \o input
                          \o Bytes(RecordTail \o <<93, 0>>))
             written == Memory_write(st.mem, st.heap, text).val
         IN  {[trap |-> FALSE, panic |-> FALSE, ret |-> st.heap,
               store |-> [st EXCEPT !.mem = written, !.heap = st.heap + ByteLen(text)]]}
    ELSE LET seen == Memory_read(st.mem, m.entry.cell, 1).val
             marked == Memory_write(st.mem, m.entry.cell, Bytes(<<9>>)).val
             answered == Memory_write(marked, m.entry.out, Norm(seen \o <<Run(1, 0)>>)).val
         IN  {[trap |-> TRUE, panic |-> FALSE, ret |-> 0, store |-> [st EXCEPT !.mem = marked]],
              [trap |-> FALSE, panic |-> FALSE, ret |-> m.entry.out,
               store |-> [st EXCEPT !.mem = answered]]}

\* free_string(ptr): the guest is entered with ptr, which its store
\* records, and returns or traps.
guest_free_string(m, st, ptr) ==
    {[trap |-> t, ret |-> 0,
      store |-> [st EXCEPT !.freed = Append(@, [ptr |-> ptr, trapped |-> t])]] :
        t \in BOOLEAN}

(***************************************************************************)
(* WasmPlugin::call_function (plugins/mod.rs), one step per statement that *)
(* can fail or that runs guest code.                                       *)
(***************************************************************************)
\* A Store that starts from the memory the previous call left behind.
Store_reused(m) ==
    IF dropped # None THEN [dropped[1] EXCEPT !.freed = <<>>]
    ELSE [mem |-> m.image, heap |-> m.heap, freed |-> <<>>]

\* Store::new + linker.instantiate: the instance starts from the module's
\* own initial memory and globals; freed lists the offsets free_string has
\* been called with in this store.
Store_new(m) == [mem |-> m.image, heap |-> m.heap, freed |-> <<>>]

\* return Err(..) / Ok(..): the value is handed back, the locals (store,
\* instance) are still alive until cf_drop.
Finish(c, outcome) ==
    /\ cret' = [cret EXCEPT ![c] = Some(outcome)]
    /\ cpc' = [cpc EXCEPT ![c] = "returned"]

Goto(c, label) ==
    /\ cpc' = [cpc EXCEPT ![c] = label]
    /\ UNCHANGED cret

\* A caller enters call_function(function_name, params).
cf_enter(c) ==
    /\ c \in callers
    /\ cpc[c] = "idle"
    /\ \E f \in HostEntries, params \in inputs :
          cin' = [cin EXCEPT ![c] = [NoCall EXCEPT !.function_name = f, !.params = params]]
    /\ rd' = [rd EXCEPT ![c] = NoRead]
    /\ cret' = [cret EXCEPT ![c] = None]
    /\ mret' = [mret EXCEPT ![c] = None]
    /\ cpc' = [cpc EXCEPT ![c] = "entered"]
    /\ UNCHANGED <<module, callers, inputs, store, dropped>>

\* An instantiation that binds every import the linker does not define to
\* a function that does nothing.
cf_instantiate_stubbed(c) ==
    /\ cpc[c] = "entered"
    /\ store' = [store EXCEPT ![c] = Some(Store_new(module))]
    /\ Goto(c, "instantiated")
    /\ UNCHANGED <<module, callers, inputs, cin, rd, dropped, mret>>

\* Store::new, Linker::new, add_to_linker, linker.instantiate
cf_instantiate(c) ==
    /\ cpc[c] = "entered"
    /\ IF module.imports_ok
       THEN /\ store' = [store EXCEPT ![c] = Some(Store_new(module))]
            /\ Goto(c, "instantiated")
       ELSE /\ Finish(c, Err("Failed to instantiate WASM module"))
            /\ UNCHANGED store
    /\ UNCHANGED <<module, callers, inputs, cin, rd, dropped, mret>>

\* instance.get_memory(&mut store, "memory")
cf_get_memory(c) ==
    /\ cpc[c] = "instantiated"
    /\ IF module.exports_memory
       THEN Goto(c, "have_memory")
       ELSE Finish(c, Err("WASM module does not export memory"))
    /\ UNCHANGED <<module, callers, inputs, cin, store, rd, dropped, mret>>

\* A call that requires the guest to export alloc.
cf_alloc_required(c) ==
    /\ cpc[c] = "have_memory"
    /\ IF module.has_alloc
       THEN \E o \in guest_alloc(module, store[c][1], ByteLen(cin[c].params)) :
               /\ store' = [store EXCEPT ![c] = Some(o.store)]
               /\ IF o.trap
                  THEN /\ Finish(c, Err("Failed to allocate memory"))
                       /\ UNCHANGED cin
                  ELSE /\ cin' = [cin EXCEPT ![c].input_ptr = o.ret,
                                              ![c].alloc_arg = Some(ByteLen(cin[c].params))]
                       /\ Goto(c, "allocated")
       ELSE /\ Finish(c, Err("Failed to allocate memory"))
            /\ UNCHANGED <<cin, store>>
    /\ UNCHANGED <<module, callers, inputs, rd, dropped, mret>>

\* input_ptr: alloc(params.len()) when the guest exports alloc, else 1024.
cf_alloc(c) ==
    /\ cpc[c] = "have_memory"
    /\ IF module.has_alloc
       THEN \E o \in guest_alloc(module, store[c][1], ByteLen(cin[c].params)) :
               /\ store' = [store EXCEPT ![c] = Some(o.store)]
               /\ IF o.trap
                  THEN /\ Finish(c, Err("Failed to allocate memory"))
                       /\ UNCHANGED cin
                  ELSE /\ cin' = [cin EXCEPT ![c].input_ptr = o.ret,
                                              ![c].alloc_arg = Some(ByteLen(cin[c].params))]
                       /\ Goto(c, "allocated")
       ELSE /\ cin' = [cin EXCEPT ![c].input_ptr = FALLBACK_OFFSET]
            /\ Goto(c, "allocated")
            /\ UNCHANGED store
    /\ UNCHANGED <<module, callers, inputs, rd, dropped, mret>>

HostWrite(c, offset, buffer, label, error) ==
    LET w == Memory_write(store[c][1].mem, offset, buffer)
    IN  IF w.ok
        THEN /\ store' = [store EXCEPT ![c] = Some([store[c][1] EXCEPT !.mem = w.val])]
             /\ Goto(c, label)
        ELSE /\ Finish(c, Err(error))
             /\ UNCHANGED store

\* A call that invokes the entry function right after the allocation.
cf_write_input_late(c) ==
    /\ cpc[c] = "allocated"
    /\ Goto(c, "resolved")
    /\ UNCHANGED <<module, callers, inputs, cin, store, rd, dropped, mret>>

\* memory.write(&mut store, input_ptr, &params)
cf_write_input(c) ==
    /\ cpc[c] = "allocated"
    /\ HostWrite(c, cin[c].input_ptr, cin[c].params, "input_written",
                 "Failed to write to WASM memory")
    /\ UNCHANGED <<module, callers, inputs, cin, rd, dropped, mret>>

\* A call that leaves the byte after the input as it finds it.
cf_skip_nul(c) ==
    /\ cpc[c] = "input_written"
    /\ Goto(c, "nul_written")
    /\ UNCHANGED <<module, callers, inputs, cin, store, rd, dropped, mret>>

\* memory.write(&mut store, input_ptr + params.len(), &[0])
cf_write_nul(c) ==
    /\ cpc[c] = "input_written"
    /\ HostWrite(c, cin[c].input_ptr + ByteLen(cin[c].params), <<Run(1, 0)>>,
                 "nul_written", "Failed to write null terminator")
    /\ UNCHANGED <<module, callers, inputs, cin, rd, dropped, mret>>

\* A lookup that also accepts the export named without the plugin_ prefix.
cf_get_func_unprefixed(c) ==
    /\ cpc[c] = "nul_written"
    /\ IF module.entries # {}
       THEN Goto(c, "resolved")
       ELSE Finish(c, Err("Function not found"))
    /\ UNCHANGED <<module, callers, inputs, cin, store, rd, dropped, mret>>

\* instance.get_typed_func::<u32, u32>(&mut store, function_name)
cf_get_func(c) ==
    /\ cpc[c] = "nul_written"
    /\ IF cin[c].function_name \in module.entries
       THEN Goto(c, "resolved")
       ELSE Finish(c, Err("Function not found"))
    /\ UNCHANGED <<module, callers, inputs, cin, store, rd, dropped, mret>>

\* func.call(&mut store, input_ptr), then the locals of the read loop.
cf_call(c) ==
    /\ cpc[c] = "resolved"
    /\ \E o \in guest_entry(module, store[c][1], cin[c].input_ptr) :
          /\ store' = [store EXCEPT ![c] = Some(o.store)]
          /\ IF o.panic
             THEN /\ cpc' = [cpc EXCEPT ![c] = "panicked"]
                  /\ UNCHANGED <<cin, rd, cret>>
             ELSE IF o.trap
             THEN /\ Finish(c, Err("Failed to call WASM function"))
                  /\ UNCHANGED <<cin, rd>>
             ELSE /\ cin' = [cin EXCEPT ![c].result_ptr = Some(o.ret)]
                  /\ rd' = [rd EXCEPT ![c] = [result |-> <<>>, offset |-> o.ret, reads |-> 0]]
                  /\ Goto(c, "reading")
    /\ UNCHANGED <<module, callers, inputs, dropped, mret>>

\* The body of the read loop with chunk_size not capped by what is left of
\* MAX_RESULT_SIZE and no size check.
read_chunk_uncapped(mem, st) ==
    LET chunk == Memory_read(mem, st.offset, CHUNK_SIZE)
    IN  IF ~chunk.ok
        THEN [done |-> TRUE, outcome |-> Err("Failed to read from WASM memory"), st |-> st]
        ELSE LET null_pos == position_zero(chunk.val)
                 reads == st.reads + 1
             IN  IF null_pos # -1
                 THEN LET result == Norm(st.result \o TakeBytes(chunk.val, null_pos))
                      IN  [done |-> TRUE, outcome |-> Ok(result),
                           st |-> [result |-> result, offset |-> st.offset, reads |-> reads]]
                 ELSE [done |-> FALSE, outcome |-> Ok(<<>>),
                       st |-> [result |-> Norm(st.result \o chunk.val),
                               offset |-> st.offset + CHUNK_SIZE, reads |-> reads]]

\* One pass through the body of the read loop: done with the outcome of the
\* call, or the loop variables for the next pass.
read_chunk(mem, st) ==
    LET remaining == MAX_RESULT_SIZE - ByteLen(st.result)
    IN  IF remaining = 0
        THEN [done |-> TRUE, outcome |-> Err("Plugin result exceeds maximum size"), st |-> st]
        ELSE
          LET chunk_size == IF remaining < CHUNK_SIZE THEN remaining ELSE CHUNK_SIZE
              chunk == Memory_read(mem, st.offset, chunk_size)
          IN  IF ~chunk.ok
              THEN [done |-> TRUE, outcome |-> Err("Failed to read from WASM memory"),
                    st |-> st]
              ELSE
                LET null_pos == position_zero(chunk.val)
                    reads == st.reads + 1
                IN  IF null_pos # -1
                    THEN LET result == Norm(st.result \o TakeBytes(chunk.val, null_pos))
                         IN  [done |-> TRUE, outcome |-> Ok(result),
                              st |-> [result |-> result, offset |-> st.offset,
                                      reads |-> reads]]
                    ELSE [done |-> FALSE, outcome |-> Ok(<<>>),
                          st |-> [result |-> Norm(st.result \o chunk.val),
                                  offset |-> st.offset + chunk_size, reads |-> reads]]

\* loop { ... }: one pass.
cf_read_chunk(c) ==
    /\ cpc[c] = "reading"
    /\ LET r == read_chunk(store[c][1].mem, rd[c])
       IN  /\ rd' = [rd EXCEPT ![c] = r.st]
           /\ IF ~r.done THEN Goto(c, "reading")
              ELSE IF r.outcome.ok THEN Goto(c, "read_done")
              ELSE Finish(c, r.outcome)
    /\ UNCHANGED <<module, callers, inputs, cin, store, dropped, mret>>

\* A call that reports a free_string that failed.
cf_free_checked(c) ==
    /\ cpc[c] = "read_done"
    /\ IF module.has_free_string
       THEN \E o \in guest_free_string(module, store[c][1], cin[c].result_ptr[1]) :
               /\ store' = [store EXCEPT ![c] = Some(o.store)]
               /\ Finish(c, IF o.trap THEN Err("Failed to free result")
                            ELSE Ok(rd[c].result))
       ELSE UNCHANGED store /\ Finish(c, Ok(rd[c].result))
    /\ UNCHANGED <<module, callers, inputs, cin, rd, dropped, mret>>

\* free_string(result_ptr) when exported, its outcome ignored; Ok(result).
cf_free_and_return(c) ==
    /\ cpc[c] = "read_done"
    /\ IF module.has_free_string
       THEN \E o \in guest_free_string(module, store[c][1], cin[c].result_ptr[1]) :
               store' = [store EXCEPT ![c] = Some(o.store)]
       ELSE UNCHANGED store
    /\ Finish(c, Ok(rd[c].result))
    /\ UNCHANGED <<module, callers, inputs, cin, rd, dropped, mret>>

\* call_function returns: store and instance go out of scope, and fetch or
\* test_connection, which called it, goes on with its result and returns.
cf_drop(c) ==
    /\ cpc[c] = "returned"
    /\ dropped' = IF store[c] # None THEN store[c] ELSE dropped
    /\ store' = [store EXCEPT ![c] = None]
    /\ mret' = [mret EXCEPT ![c] =
                    Some(IF cin[c].function_name = "plugin_fetch"
                         THEN fetch(cret[c][1])
                         ELSE test_connection(cret[c][1]))]
    /\ cpc' = [cpc EXCEPT ![c] = "idle"]
    /\ UNCHANGED <<module, callers, inputs, cin, rd, cret>>

\* The plugin is a module with strings in its data segment called by one
\* caller at a time, or a module called by overlapping callers.
InitCall ==
    /\ plugins = EmptyMap /\ manifests = EmptyMap
    /\ dirExists = TRUE /\ dirEntries = <<>>
    /\ lastOp = [op |-> "new"]
    /\ CmdIdle
    /\ \/ module \in StaticModules \cup MisbehavingModules /\ callers = {1}
       \/ module \in SharedModules /\ callers = Calls
    /\ inputs = ParamsSet
    /\ CallIdle
    /\ HttpUnused

NextCall ==
    \E c \in Calls :
        /\ \/ cf_enter(c)
           \/ cf_instantiate(c)
           \/ cf_get_memory(c)
           \/ cf_alloc(c)
           \/ cf_write_input(c)
           \/ cf_write_nul(c)
           \/ cf_get_func(c)
           \/ cf_call(c)
           \/ cf_read_chunk(c)
           \/ cf_free_and_return(c)
           \/ cf_drop(c)
        /\ UNCHANGED <<mgrVars, cmdVars, httpVars>>

SpecCall == InitCall /\ [][NextCall]_vars

(***************************************************************************)
(* SpecFetch: WasmPlugin::fetch and WasmPlugin::test_connection, which     *)
(* serialize an AdapterConfig, run call_function and decode its result.    *)
(***************************************************************************)
InitFetch ==
    /\ plugins = EmptyMap /\ manifests = EmptyMap
    /\ dirExists = TRUE /\ dirEntries = <<>>
    /\ lastOp = [op |-> "new"]
    /\ CmdIdle
    /\ module \in FetchModules /\ callers = {1}
    /\ inputs = ConfigParams
    /\ CallIdle
    /\ HttpUnused

SpecFetch == InitFetch /\ [][NextCall]_vars

(***************************************************************************)
(* Claims about call_function, checked under SpecCall.                     *)
(***************************************************************************)
BeforeEntry == {"instantiated", "have_memory", "allocated", "input_written",
                "nul_written", "resolved"}

\* The initial memory with what the host has written into it so far.
HostWritten(c) ==
    LET withInput == Memory_write(module.image, cin[c].input_ptr, cin[c].params).val
        withNul == Memory_write(withInput, cin[c].input_ptr + ByteLen(cin[c].params),
                                <<Run(1, 0)>>).val
    IN  CASE cpc[c] \in {"instantiated", "have_memory", "allocated"} -> module.image
          [] cpc[c] = "input_written" -> withInput
          [] OTHER -> withNul

ByteAt(mem, offset) == Memory_read(mem, offset, 1).val

\* C4: every call runs in a freshly created store and linear memory. Until
\* its own entry function runs, the memory of a call holds the module's
\* initial image plus the input the host wrote and its allocator starts at
\* the module's first address, whatever earlier or overlapping calls
\* (trapped ones included) wrote; so the result of the guest that reports
\* the byte it finds in its cell is always the byte of the image.
C4_FreshStorePerCall ==
    \A c \in Calls :
        /\ (cpc[c] \in BeforeEntry) =>
              /\ store[c] # None
              /\ store[c][1].mem = HostWritten(c)
              /\ (module.has_alloc /\ cpc[c] \notin {"instantiated", "have_memory"}) =>
                     cin[c].input_ptr = module.heap
        /\ (module.entry.kind = "stateful" /\ cpc[c] = "returned" /\ cret[c][1].ok) =>
              cret[c][1].val = ByteAt(module.image, module.entry.cell)

\* A call has returned the byte of the image although the store of an
\* earlier call was dropped with the cell overwritten and the memory of an
\* overlapping call has the cell overwritten as well.
C4_Witness ==
    \E c, d \in Calls :
        /\ c # d
        /\ module.entry.kind = "stateful"
        /\ cpc[c] = "returned" /\ cret[c] = Some(Ok(Bytes(<<7>>)))
        /\ dropped # None /\ ByteAt(dropped[1].mem, module.entry.cell) = Bytes(<<9>>)
        /\ store[d] # None /\ ByteAt(store[d][1].mem, module.entry.cell) = Bytes(<<9>>)

\* The entry function of call c has returned an offset.
PastEntry(c) == store[c] # None /\ cin[c].result_ptr # None

InsideMemory(c) == cin[c].result_ptr[1] <= ByteLen(store[c][1].mem)

\* Number of non-zero bytes from the returned offset up to the first zero
\* byte or the end of memory.
RunLength(c) ==
    LET rest == DropBytes(store[c][1].mem, cin[c].result_ptr[1])
        z == position_zero(rest)
    IN  IF z = -1 THEN ByteLen(rest) ELSE z

Terminated(c) ==
    position_zero(DropBytes(store[c][1].mem, cin[c].result_ptr[1])) # -1

\* C5: when the returned offset begins a run of at least MAX_RESULT_SIZE
\* non-zero bytes, the read loop makes at most MAX_RESULT_SIZE / CHUNK_SIZE
\* reads of at most CHUNK_SIZE bytes each, never holds more than
\* MAX_RESULT_SIZE bytes, never yields a result, and the call returns the
\* exceeds-maximum-size error.
C5_OverlongRunBounded ==
    \A c \in Calls :
        (PastEntry(c) /\ InsideMemory(c) /\ RunLength(c) >= MAX_RESULT_SIZE) =>
            /\ rd[c].reads <= MAX_RESULT_SIZE \div CHUNK_SIZE
            /\ ByteLen(rd[c].result) <= rd[c].reads * CHUNK_SIZE
            /\ ByteLen(rd[c].result) <= MAX_RESULT_SIZE
            /\ cpc[c] # "read_done"
            /\ cpc[c] = "returned" =>
                   cret[c] = Some(Err("Plugin result exceeds maximum size"))

\* A call over an unterminated run longer than the cap has returned the
\* error after reading the cap in full chunks.
C5_Witness ==
    \E c \in Calls :
        /\ PastEntry(c) /\ InsideMemory(c) /\ ~Terminated(c)
        /\ RunLength(c) > MAX_RESULT_SIZE
        /\ cpc[c] = "returned"
        /\ cret[c] = Some(Err("Plugin result exceeds maximum size"))
        /\ rd[c].reads = MAX_RESULT_SIZE \div CHUNK_SIZE
        /\ ByteLen(rd[c].result) = MAX_RESULT_SIZE

\* C6: when the first zero byte at or after the returned offset p is at
\* p+L inside guest memory with L below the cap, the call returns exactly
\* the L bytes [p, p+L), wherever the string lies in memory.
C6_ReturnsTerminatedString ==
    \A c \in Calls :
        (/\ PastEntry(c) /\ InsideMemory(c) /\ Terminated(c)
         /\ RunLength(c) < MAX_RESULT_SIZE
         /\ cpc[c] = "returned") =>
            cret[c] = Some(Ok(Norm(TakeBytes(DropBytes(store[c][1].mem,
                                                       cin[c].result_ptr[1]),
                                             RunLength(c)))))

(***************************************************************************)
(* SpecHttp: the host functions http.get and http.request of               *)
(* plugins/http.rs, called by a running guest.                             *)
(***************************************************************************)
\* "GET" in ASCII.
GET_ == <<71, 69, 84>>

\* str::to_uppercase on ASCII text.
to_uppercase(bytes) ==
    Norm([i \in 1..Len(bytes) |->
            IF bytes[i].b >= 97 /\ bytes[i].b <= 122
            THEN Run(bytes[i].n, bytes[i].b - 32) ELSE bytes[i]])

\* "GET", "POST", "PUT", "DELETE", "PATCH"
SupportedMethods ==
    { Bytes(GET_), Bytes(<<80, 79, 83, 84>>), Bytes(<<80, 85, 84>>),
      Bytes(<<68, 69, 76, 69, 84, 69>>), Bytes(<<80, 65, 84, 67, 72>>) }

\* u32::to_be_bytes
to_be_bytes(x) ==
    Norm(Bytes(<<(x \div 16777216) % 256, (x \div 65536) % 256, (x \div 256) % 256,
                 x % 256>>))

\* (x as u32).to_le_bytes() of an i32 x
to_le_bytes(x) ==
    Norm(Bytes(<<x % 256, (x \div 256) % 256, (x \div 65536) % 256,
                 (x \div 16777216) % 256>>))

\* serde_json::to_string of {"status", "headers", "body"} for a response
\* without headers whose body needs no escaping; serde_json prints the keys
\* of an object in sorted order: {"body":"...","headers":{},"status":...}
response_json(status, body) ==
    Bytes(<<123, 34, 98, 111, 100, 121, 34, 58, 34>> \o body
          \o <<34, 44, 34, 104, 101, 97, 100, 101, 114, 115, 34, 58, 123, 125, 44, 34, 115, 116, 97, 116, 117, 115, 34, 58>>
          \o Digits(status) \o <<125>>)

\* reqwest::Client::new(): a client without a request timeout.
reqwest_Client_new == [timeout |-> None]

\* What the server does with a request.
Servers == {"responds", "refuses", "silent"}
Responses == { [status |-> 200, body |-> <<111, 107>>], [status |-> 404, body |-> <<>>] }

\* request.send().await and response.text().await: the possible results for
\* a client and a server; none while the server stays silent and the client
\* sets no timeout.
ResponseJsons == { Ok(response_json(r.status, r.body)) : r \in Responses }

\* send_await that turns a 4xx or 5xx status into an error
\* (error_for_status).
send_await_error_for_status(client, server) ==
    CASE server = "responds" ->
            { IF r.status >= 400 THEN Err("HTTP status error")
              ELSE Ok(response_json(r.status, r.body)) : r \in Responses }
      [] server = "refuses" -> { Err("error sending request") }
      [] OTHER ->
            IF client.timeout # None THEN { Err("operation timed out") } ELSE {}

send_await(client, server) ==
    CASE server = "responds" -> ResponseJsons
      [] server = "refuses" -> { Err("error sending request") }
      [] OTHER ->
            IF client.timeout # None THEN { Err("operation timed out") } ELSE {}

\* The memory of the guest that calls the host: the URL "http" at 100, bytes
\* that are no UTF-8 at 200, the methods "GET" at 300, "post" at 310 and
\* "XYZ" at 320, the headers "{}" at 400, a body at 500.
HttpImage ==
    Image(1, << [at |-> 100, data |-> Bytes(<<104, 116, 116, 112>>)],
                [at |-> 200, data |-> Bytes(<<255, 104>>)],
                [at |-> 300, data |-> Bytes(GET_)],
                [at |-> 310, data |-> Bytes(<<112, 111, 115, 116>>)],
                [at |-> 320, data |-> Bytes(<<88, 89, 90>>)],
                [at |-> 400, data |-> Bytes(<<123, 125>>)],
                [at |-> 500, data |-> Bytes(<<1, 2, 3>>)] >>)

HttpGuest(exports_memory, alloc) ==
    [exports_memory |-> exports_memory, alloc |-> alloc, mem |-> HttpImage, heap |-> 4096]

\* alloc is exported with the type (i32) -> i32, not exported, or exported
\* with another type.
HttpGuests ==
    { HttpGuest(TRUE, "ok"), HttpGuest(FALSE, "ok"), HttpGuest(TRUE, "missing"),
      HttpGuest(TRUE, "mistyped") }

\* The guest's alloc(size) called by the host: it traps, or returns what
\* the guest pleases: a fresh block, a negative number, the end of memory,
\* a block that ends size - 1 bytes or size bytes before the end of memory.
guest_alloc_i32(g, size) ==
    {[trap |-> TRUE, ret |-> 0, heap |-> g.heap]} \cup
    {[trap |-> FALSE, ret |-> g.heap, heap |-> g.heap + size]} \cup
    {[trap |-> FALSE, ret |-> r, heap |-> g.heap] :
        r \in {-1, ByteLen(g.mem), ByteLen(g.mem) - (size - 1), ByteLen(g.mem) - size}}

\* i32 arguments a guest may pass: <<ptr, len>> pairs and output cells.
UrlArgs == { <<100, 4>>, <<200, 2>>, <<100, -1>>, <<WasmPage - 2, 4>>, <<-8, 4>> }
MethodArgs == { <<300, 3>>, <<310, 4>>, <<320, 3>>, <<300, I32_MIN>>, <<200, 2>> }
HeadersArgs == { <<0, 0>>, <<400, 2>>, <<WasmPage, 5>>, <<200, 2>>, <<400, -2>> }
BodyArgs == { <<0, 0>>, <<500, 3>>, <<WasmPage, 1>>, <<500, -5>> }
OutArgs == { 3000, -4, WasmPage - 2, 4097 }

return_i32(v, why) ==
    /\ hret' = Some(v)
    /\ hpc' = "returned"
    /\ hloc' = [hloc EXCEPT !.error = why]

panic_ ==
    /\ hpc' = "panicked"
    /\ UNCHANGED <<hret, hloc>>

\* The guest calls http.get(url_ptr, url_len, result_ptr_ptr).
guest_calls_get ==
    /\ hpc = "idle" /\ guest # NoGuest
    /\ \E u \in UrlArgs, out \in OutArgs :
          hcall' = [NoHostCall EXCEPT !.fn = "get", !.url_ptr = u[1], !.url_len = u[2],
                                      !.result_ptr_ptr = out]
    /\ hpc' = "called"
    /\ UNCHANGED <<guest, hloc, net, hret>>

\* The guest calls http.request(url_ptr, url_len, method_ptr, method_len,
\* headers_ptr, headers_len, body_ptr, body_len, result_ptr_ptr).
guest_calls_request ==
    /\ hpc = "idle" /\ guest # NoGuest
    /\ \E u \in UrlArgs, m \in MethodArgs, h \in HeadersArgs, b \in BodyArgs,
          out \in OutArgs :
          hcall' = [fn |-> "request", url_ptr |-> u[1], url_len |-> u[2],
                    method_ptr |-> m[1], method_len |-> m[2],
                    headers_ptr |-> h[1], headers_len |-> h[2],
                    body_ptr |-> b[1], body_len |-> b[2], result_ptr_ptr |-> out]
    /\ hpc' = "called"
    /\ UNCHANGED <<guest, hloc, net, hret>>

\* caller.get_export("memory")
h_get_memory ==
    /\ hpc = "called"
    /\ IF guest.exports_memory
       THEN hpc' = "have_memory" /\ UNCHANGED <<hret, hloc>>
       ELSE return_i32(-1, Some("no memory export"))
    /\ UNCHANGED <<guest, hcall, net>>

\* A read of an argument into the local named field: panic, return -1, or
\* go on at label.
ReadArg(r, field, label, why) ==
    IF r.panic THEN panic_
    ELSE IF ~r.res.ok THEN return_i32(-1, Some(why))
    ELSE /\ hloc' = [hloc EXCEPT ![field] = Some(r.res.val)]
         /\ hpc' = label
         /\ UNCHANGED hret

\* let url = read_string_from_memory(.., url_ptr as usize, url_len as usize)
h_read_url ==
    /\ hpc = "have_memory"
    /\ ReadArg(read_string_from_memory(guest.mem, as_usize(hcall.url_ptr),
                                       as_usize(hcall.url_len)),
               "url", "url_read", "invalid url")
    /\ UNCHANGED <<guest, hcall, net>>

\* let method = read_string_from_memory(.., method_ptr, method_len)
h_read_method ==
    /\ hpc = "url_read" /\ hcall.fn = "request"
    /\ ReadArg(read_string_from_memory(guest.mem, as_usize(hcall.method_ptr),
                                       as_usize(hcall.method_len)),
               "method", "method_read", "invalid method")
    /\ UNCHANGED <<guest, hcall, net>>

\* let headers_json = if headers_len > 0 { .. } else { None }
h_read_headers ==
    /\ hpc = "method_read"
    /\ IF hcall.headers_len > 0
       THEN ReadArg(read_string_from_memory(guest.mem, as_usize(hcall.headers_ptr),
                                            as_usize(hcall.headers_len)),
                    "headers_json", "headers_read", "invalid headers")
       ELSE hpc' = "headers_read" /\ UNCHANGED <<hret, hloc>>
    /\ UNCHANGED <<guest, hcall, net>>

\* let body = if body_len > 0 { .. } else { None }
h_read_body ==
    /\ hpc = "headers_read"
    /\ IF hcall.body_len > 0
       THEN ReadArg(read_bytes_from_memory(guest.mem, as_usize(hcall.body_ptr),
                                           as_usize(hcall.body_len)),
                    "body", "body_read", "invalid body")
       ELSE hpc' = "body_read" /\ UNCHANGED <<hret, hloc>>
    /\ UNCHANGED <<guest, hcall, net>>

\* make_http_request_sync whose match sends every other method as a GET.
h_send_any_method ==
    /\ hpc = IF hcall.fn = "get" THEN "url_read" ELSE "body_read"
    /\ \E server \in Servers :
          net' = Some([client |-> reqwest_Client_new, server |-> server])
    /\ hpc' = "awaiting"
    /\ UNCHANGED <<hret, hloc, guest, hcall>>

\* make_http_request_sync up to request.send(): http.get passes "GET".
h_send ==
    /\ hpc = IF hcall.fn = "get" THEN "url_read" ELSE "body_read"
    /\ LET method == IF hcall.fn = "get" THEN Bytes(GET_) ELSE hloc.method[1]
       IN  IF to_uppercase(method) \in SupportedMethods
           THEN /\ \E server \in Servers :
                      net' = Some([client |-> reqwest_Client_new, server |-> server])
                /\ hpc' = "awaiting"
                /\ UNCHANGED <<hret, hloc>>
           ELSE /\ return_i32(-1, Some("transport error"))
                /\ UNCHANGED net
    /\ UNCHANGED <<guest, hcall>>

\* request.send().await ... Ok(serde_json::to_string(&response_json)?)
h_await ==
    /\ hpc = "awaiting"
    /\ \E r \in send_await(net[1].client, net[1].server) :
          IF r.ok
          THEN /\ hloc' = [hloc EXCEPT !.result = Some(r.val)]
               /\ hpc' = "have_result"
               /\ UNCHANGED hret
          ELSE return_i32(-1, Some("transport error"))
    /\ net' = None
    /\ UNCHANGED <<guest, hcall>>

\* caller.get_export("alloc") and func.typed::<i32, i32>
h_get_alloc ==
    /\ hpc = "have_result"
    /\ IF guest.alloc = "ok"
       THEN hpc' = "have_alloc" /\ UNCHANGED <<hret, hloc>>
       ELSE return_i32(-1, Some("no alloc export"))
    /\ UNCHANGED <<guest, hcall, net>>

\* alloc_fn.call(&mut caller, result_len + 1)
h_call_alloc ==
    /\ hpc = "have_alloc"
    /\ LET size == ByteLen(hloc.result[1]) + 1
       IN  \E o \in guest_alloc_i32(guest, size) :
              /\ guest' = [guest EXCEPT !.heap = o.heap]
              /\ IF o.trap
                 THEN return_i32(-1, Some("alloc trap"))
                 ELSE /\ hloc' = [hloc EXCEPT !.alloc_arg = Some(size),
                                              !.result_ptr = Some(o.ret)]
                      /\ hpc' = "allocated"
                      /\ UNCHANGED hret
    /\ UNCHANGED <<hcall, net>>

\* if memory.write(..).is_err() { return -1; }
WriteOrFail(ptr, buffer, label) ==
    LET w == Memory_write_at(guest.mem, ptr, buffer)
    IN  IF w.ok
        THEN /\ guest' = [guest EXCEPT !.mem = w.val]
             /\ hpc' = label
             /\ UNCHANGED <<hret, hloc>>
        ELSE /\ return_i32(-1, Some("out of range write"))
             /\ UNCHANGED guest

\* h_write_result that stores the pointer in the output cell before it
\* writes the response.
h_write_result_ptr_first ==
    /\ hpc = "allocated"
    /\ LET p == Memory_write_at(guest.mem, as_usize(hcall.result_ptr_ptr),
                                to_le_bytes(hloc.result_ptr[1]))
       IN  IF ~p.ok
           THEN return_i32(-1, Some("out of range write")) /\ UNCHANGED guest
           ELSE LET w == Memory_write_at(p.val, as_usize(hloc.result_ptr[1]),
                                         hloc.result[1])
                IN  IF w.ok
                    THEN /\ guest' = [guest EXCEPT !.mem = w.val]
                         /\ hpc' = "result_written"
                         /\ UNCHANGED <<hret, hloc>>
                    ELSE /\ return_i32(-1, Some("out of range write"))
                         /\ guest' = [guest EXCEPT !.mem = p.val]
    /\ UNCHANGED <<hcall, net>>

\* memory.write(&mut caller, result_ptr as usize, result_bytes)
h_write_result ==
    /\ hpc = "allocated"
    /\ WriteOrFail(as_usize(hloc.result_ptr[1]), hloc.result[1], "result_written")
    /\ UNCHANGED <<hcall, net>>

\* memory.write(&mut caller, (result_ptr as usize) + result_bytes.len(), &[0])
h_write_nul ==
    /\ hpc = "result_written"
    /\ LET at == as_usize(hloc.result_ptr[1])
       IN  WriteOrFail([at EXCEPT !.low = at.low + ByteLen(hloc.result[1])],
                       <<Run(1, 0)>>, "nul_written")
    /\ UNCHANGED <<hcall, net>>

\* memory.write(&mut caller, result_ptr_ptr as usize, &ptr_bytes)
h_write_ptr ==
    /\ hpc = "nul_written"
    /\ WriteOrFail(as_usize(hcall.result_ptr_ptr), to_le_bytes(hloc.result_ptr[1]),
                   "ptr_written")
    /\ UNCHANGED <<hcall, net>>

\* result_len
h_return ==
    /\ hpc = "ptr_written"
    /\ return_i32(ByteLen(hloc.result[1]), None)
    /\ UNCHANGED <<guest, hcall, net>>

InitHttp ==
    /\ plugins = EmptyMap /\ manifests = EmptyMap
    /\ dirExists = TRUE /\ dirEntries = <<>>
    /\ lastOp = [op |-> "new"]
    /\ CmdIdle
    /\ CallUnused
    /\ guest \in HttpGuests
    /\ HttpIdle

HostStep ==
    /\ \/ h_get_memory
       \/ h_read_url
       \/ h_read_method
       \/ h_read_headers
       \/ h_read_body
       \/ h_send
       \/ h_await
       \/ h_get_alloc
       \/ h_call_alloc
       \/ h_write_result
       \/ h_write_nul
       \/ h_write_ptr
       \/ h_return
    /\ UNCHANGED <<mgrVars, cmdVars, callVars>>

GuestCall ==
    /\ \/ guest_calls_get
       \/ guest_calls_request
    /\ UNCHANGED <<mgrVars, cmdVars, callVars>>

NextHttp == GuestCall \/ HostStep

SpecHttp == InitHttp /\ [][NextHttp]_vars

\* The thread that runs the host function keeps running.
SpecHttpFair == SpecHttp /\ WF_vars(HostStep)

(***************************************************************************)
(* Claims about the host functions, checked under SpecHttp and, for        *)
(* liveness, SpecHttpFair.                                                 *)
(***************************************************************************)
\* C7: for every value of the guest-supplied i32 arguments of http.get and
\* http.request, the host function never panics.
C7_HostNeverPanics == hpc # "panicked"

\* The two ranges of guest memory share no byte.
Disjoint(a, alen, b, blen) == a + alen <= b \/ b + blen <= a

\* The i32 that four bytes at offset at hold in little-endian order.
LittleEndianAt(mem, at) ==
    LET byte(i) == Memory_read(mem, at + i, 1).val[1].b
        low == byte(0) + 256 * byte(1) + 65536 * byte(2) + 16777216 * (byte(3) % 128)
    IN  IF byte(3) >= 128 THEN low + I32_MIN ELSE low

\* The stages a successful call has been through, as far as the memory
\* still shows them at position pos of the host function.
ResponseWritten ==
    LET n == ByteLen(hloc.result[1])
        ptr == hloc.result_ptr[1]
    IN  /\ hloc.alloc_arg = Some(n + 1)
        /\ ptr >= 0
        /\ Memory_read(guest.mem, ptr, n) = Ok(hloc.result[1])

NulWritten ==
    LET n == ByteLen(hloc.result[1])
        ptr == hloc.result_ptr[1]
    IN  /\ ResponseWritten
        /\ Memory_read(guest.mem, ptr + n, 1) = Ok(<<Run(1, 0)>>)

PointerStored ==
    LET n == ByteLen(hloc.result[1])
        ptr == hloc.result_ptr[1]
        out == hcall.result_ptr_ptr
    IN  /\ hloc.alloc_arg = Some(n + 1)
        /\ out >= 0
        /\ out + 4 <= ByteLen(guest.mem)
        /\ LittleEndianAt(guest.mem, out) = ptr
        /\ Disjoint(out, 4, ptr, n + 1) => NulWritten

\* C8: the host function returns n >= 0 only after the response JSON of
\* exactly n bytes was written at the pointer the guest's alloc(n+1)
\* returned, then a zero byte behind it, then the pointer in 4 little-endian
\* bytes in the output cell; without memory export, with an invalid URL or
\* method, without alloc export, on an alloc trap, an out-of-range write or
\* a transport error it returns a negative value.
C8_LengthOnlyAfterWrites ==
    /\ hpc = "result_written" => ResponseWritten
    /\ hpc = "nul_written" => NulWritten
    /\ hpc = "ptr_written" => PointerStored
    /\ hpc = "returned" =>
          /\ hret # None
          /\ hret[1] >= 0 =>
                /\ hloc.error = None
                /\ guest.exports_memory /\ guest.alloc = "ok"
                /\ hloc.url # None /\ hloc.result # None /\ hloc.result_ptr # None
                /\ hret[1] = ByteLen(hloc.result[1])
                /\ PointerStored
          /\ hloc.error # None => hret[1] < 0
          /\ (~guest.exports_memory \/ guest.alloc # "ok") => hret[1] < 0

\* http.request has returned the length of a response that lies in guest
\* memory behind the pointer stored in the output cell.
C8_Witness ==
    /\ hpc = "returned" /\ hcall.fn = "request"
    /\ hret # None /\ hret[1] > 0
    /\ hloc.body # None /\ hloc.headers_json # None
    /\ hloc.result # None /\ hloc.result_ptr = Some(4096)
    /\ NulWritten
    /\ hcall.result_ptr_ptr = 3000
    /\ Memory_read(guest.mem, 3000, 4) = Ok(Norm(Bytes(<<0, 16, 0, 0>>)))

\* C9: every outbound request of the capability provider is followed by
\* the return of the host function to the guest, also when the server
\* never responds.
C9_RequestEventuallyReturns == (hpc = "awaiting") ~> (hpc = "returned")

(***************************************************************************)
(* SpecCmd: the plugin commands of main.rs, run by concurrent tasks.       *)
(* plugin_manager.lock().await is taken when the mutex is free; a command  *)
(* that does not await a plugin call while holding the guard runs from     *)
(* lock to unlock in one step.                                             *)
(***************************************************************************)
\* Plugin directories of the command-level runs.
CmdDirectories ==
    { <<Package(PluginManifest("p1", 1, Some(BackendConfig("wasm", <<"a1">>)), FALSE), "good"),
        Package(PluginManifest("p2", 1, Some(BackendConfig("wasm", <<"a1">>)), FALSE), "good")>>,
      <<Package(PluginManifest("p1", 2, Some(BackendConfig("wasm", <<"a2", "a1">>)), TRUE), "good"),
        Package(PluginManifest("p2", 1, None, TRUE), "absent")>> }

InitCmd ==
    /\ plugins = EmptyMap
    /\ manifests = EmptyMap
    /\ dirExists = TRUE
    /\ dirEntries \in CmdDirectories
    /\ lastOp = [op |-> "new"]
    /\ CmdIdle
    /\ CallUnused
    /\ HttpUnused

\* setup(): PluginManager::new, load_plugins, then the manager goes into
\* AppState behind Arc<Mutex<..>>.
Setup ==
    /\ ~shared
    /\ LET r == load_plugins(plugins, manifests, dirExists, dirEntries)
       IN  /\ plugins' = r.plugins
           /\ manifests' = r.manifests
           /\ dirExists' = r.dirExists
    /\ shared' = TRUE
    /\ UNCHANGED <<dirEntries, lastOp, lock, pc, cmd, local, ret, db, started, callVars, httpVars>>

\* A command is invoked on an idle task and first awaits the manager lock.
InvokeCommand(t) ==
    /\ shared /\ pc[t] = "idle" /\ lock = NoTask
    /\ started < MaxCommands
    /\ started' = started + 1

Return(t, name, result) ==
    /\ pc' = [pc EXCEPT ![t] = "idle"]
    /\ cmd' = [cmd EXCEPT ![t] = NoCmd]
    /\ local' = [local EXCEPT ![t] = NoLocal]
    /\ ret' = [task |-> t, cmd |-> name, result |-> result]

\* get_installed_plugins
get_installed_plugins(t) ==
    /\ InvokeCommand(t)
    /\ Return(t, "get_installed_plugins", Ok(get_all_plugins(plugins, manifests)))
    /\ UNCHANGED <<mgrVars, shared, lock, db, callVars, httpVars>>

\* reload_plugins that drops the guard before it touches the manager.
reload_plugins_unlocked(t) ==
    /\ InvokeCommand(t)
    /\ LET s == shutdown_all(plugins)
       IN  /\ plugins' = s.plugins
           /\ pc' = [pc EXCEPT ![t] = "reloading"]
           /\ cmd' = [cmd EXCEPT ![t] = [name |-> "reload_plugins", arg |-> ""]]
           /\ local' = [local EXCEPT ![t] = [NoLocal EXCEPT !.entry = 1]]
    /\ UNCHANGED <<manifests, dirExists, dirEntries, lastOp, shared, lock, ret, db,
                   callVars, httpVars>>

\* reload_plugins: the guard is taken and shutdown_all runs; load_plugins
\* follows under the same guard, one directory entry per step.
reload_plugins(t) ==
    /\ InvokeCommand(t)
    /\ lock' = t
    /\ LET s == shutdown_all(plugins)
       IN  /\ plugins' = s.plugins
           /\ pc' = [pc EXCEPT ![t] = "reloading"]
           /\ cmd' = [cmd EXCEPT ![t] = [name |-> "reload_plugins", arg |-> ""]]
           /\ local' = [local EXCEPT ![t] = [NoLocal EXCEPT !.entry = 1]]
    /\ UNCHANGED <<manifests, dirExists, dirEntries, lastOp, shared, ret, db,
                   callVars, httpVars>>

ReleaseLock(t) == lock' = IF lock = t THEN NoTask ELSE lock

\* load_plugins inside reload_plugins: the next directory entry is scanned.
reload_scan(t) ==
    /\ pc[t] = "reloading"
    /\ dirExists /\ local[t].entry <= Len(dirEntries)
    /\ LET st == scan_entry([plugins |-> plugins, manifests |-> manifests,
                             count |-> local[t].count, visited |-> {}, loaded |-> {}],
                            dirEntries, local[t].entry)
       IN  /\ plugins' = st.plugins
           /\ manifests' = st.manifests
           /\ local' = [local EXCEPT ![t].entry = @ + 1, ![t].count = st.count]
    /\ UNCHANGED <<dirExists, dirEntries, lastOp, shared, lock, pc, cmd, ret, db, started,
                   callVars, httpVars>>

\* load_plugins returns its count (Ok(0) after creating a missing directory)
\* and reload_plugins returns; the guard is dropped.
reload_return(t) ==
    /\ pc[t] = "reloading"
    /\ ~dirExists \/ local[t].entry > Len(dirEntries)
    /\ dirExists' = TRUE
    /\ Return(t, "reload_plugins", Ok(local[t].count))
    /\ ReleaseLock(t)
    /\ UNCHANGED <<plugins, manifests, dirEntries, lastOp, shared, db, started,
                   callVars, httpVars>>

\* get_plugin_info(name)
get_plugin_info(t) ==
    \E name \in Names :
        /\ InvokeCommand(t)
        /\ Return(t, "get_plugin_info",
                  Ok(IF get_plugin(plugins, name) = None THEN None
                     ELSE Some(get_plugin(plugins, name)[1].metadata)))
        /\ UNCHANGED <<mgrVars, shared, lock, db, callVars, httpVars>>

\* unload_plugin(name) (the command)
unload_plugin_cmd(t) ==
    \E name \in Names :
        /\ InvokeCommand(t)
        /\ LET r == unload_plugin(plugins, name)
           IN  /\ plugins' = r.plugins
               /\ Return(t, "unload_plugin", r.result)
        /\ UNCHANGED <<manifests, dirExists, dirEntries, lastOp, shared, lock, db, callVars, httpVars>>

\* The guard taken by a command that goes on to call the plugin: it is a
\* local of the command and lives until the block that declares it ends.
GuardHeldAcrossCall(t) == t

\* test_plugin_fetch(plugin_name): lock, get_plugin, then plugin.fetch.
test_plugin_fetch(t) ==
    \E name \in Names :
        /\ InvokeCommand(t)
        /\ IF get_plugin(plugins, name) = None
           THEN /\ Return(t, "test_plugin_fetch", Err("Plugin not found"))
                /\ UNCHANGED lock
           ELSE /\ lock' = GuardHeldAcrossCall(t)
                /\ pc' = [pc EXCEPT ![t] = "call"]
                /\ cmd' = [cmd EXCEPT ![t] = [name |-> "test_plugin_fetch", arg |-> name]]
                /\ local' = [local EXCEPT ![t] = [NoLocal EXCEPT !.plugin = Some(name)]]
                /\ UNCHANGED ret
        /\ UNCHANGED <<mgrVars, shared, db, callVars, httpVars>>

\* First block of test_adapter_connection / fetch_adapter_data: has_plugin is
\* computed under a guard that is dropped at the end of the block.
has_plugin(t, name) ==
    \E ty \in ConfigTypes :
        /\ InvokeCommand(t)
        /\ \E found \in get_plugin_by_adapter_type(plugins, ty) :
              local' = [local EXCEPT ![t] = [NoLocal EXCEPT !.has_plugin = (found # None)]]
        /\ pc' = [pc EXCEPT ![t] = "checked"]
        /\ cmd' = [cmd EXCEPT ![t] = [name |-> name, arg |-> ty]]
        /\ UNCHANGED <<mgrVars, shared, lock, ret, db, callVars, httpVars>>

tac_has_plugin(t) == has_plugin(t, "test_adapter_connection")
fad_has_plugin(t) == has_plugin(t, "fetch_adapter_data")

\* if has_plugin { lock; get_plugin_by_adapter_type(..).expect("Plugin should
\* exist"); plugin.<call>(&config).await ... }: expect panics on None, and the
\* unwinding drops the guard.
lookup_and_call(t) ==
    /\ shared /\ pc[t] = "checked" /\ local[t].has_plugin
    /\ lock = NoTask
    /\ \E found \in get_plugin_by_adapter_type(plugins, cmd[t].arg) :
          IF found = None
          THEN /\ pc' = [pc EXCEPT ![t] = "panicked"]
               /\ local' = [local EXCEPT ![t] = NoLocal]
               /\ UNCHANGED lock
          ELSE /\ pc' = [pc EXCEPT ![t] = "call"]
               /\ lock' = GuardHeldAcrossCall(t)
               /\ local' = [local EXCEPT ![t].plugin = found]
    /\ UNCHANGED <<mgrVars, shared, cmd, ret, db, started, callVars, httpVars>>

\* else branch of test_adapter_connection: the built-in adapter registry.
tac_builtin(t) ==
    /\ shared /\ pc[t] = "checked" /\ ~local[t].has_plugin
    /\ cmd[t].name = "test_adapter_connection"
    /\ \E r \in {Ok(TRUE), Ok(FALSE), Err("adapter")} :
          Return(t, "test_adapter_connection", r)
    /\ UNCHANGED <<mgrVars, shared, lock, db, started, callVars, httpVars>>

\* format!("No plugin found for adapter type: {}. Please install the
\* appropriate plugin.", adapter_type); the error Strings of
\* fetch_adapter_data are tuples of their pieces.
NoPluginFound(adapter_type) ==
    <<"No plugin found for adapter type: ", adapter_type,
      ". Please install the appropriate plugin.">>

\* An else branch that falls back to a built-in adapter and stores what it
\* fetched.
fad_no_plugin_builtin(t) ==
    /\ shared /\ pc[t] = "checked" /\ ~local[t].has_plugin
    /\ cmd[t].name = "fetch_adapter_data"
    /\ \E l \in RecordLists :
          /\ db' = db \cup {l[i] : i \in 1..Len(l)}
          /\ Return(t, "fetch_adapter_data", Ok(Len(l)))
    /\ UNCHANGED <<mgrVars, shared, lock, started, callVars, httpVars>>

\* else branch of fetch_adapter_data.
fad_no_plugin(t) ==
    /\ shared /\ pc[t] = "checked" /\ ~local[t].has_plugin
    /\ cmd[t].name = "fetch_adapter_data"
    /\ Return(t, "fetch_adapter_data", Err(NoPluginFound(cmd[t].arg)))
    /\ UNCHANGED <<mgrVars, shared, lock, db, started, callVars, httpVars>>

\* The guest, running inside plugin.fetch / plugin.test_connection, calls
\* http.get or http.request: the task blocks in make_http_request_sync.
guest_http(t) ==
    /\ pc[t] = "call"
    /\ local[t].http < MaxHttpCalls
    /\ pc' = [pc EXCEPT ![t] = "http"]
    /\ local' = [local EXCEPT ![t].http = @ + 1]
    /\ UNCHANGED <<mgrVars, shared, lock, cmd, ret, db, started, callVars, httpVars>>

\* A bridge that waits for the manager lock before it returns.
http_return_locking(t) ==
    /\ pc[t] = "http" /\ lock = NoTask
    /\ pc' = [pc EXCEPT ![t] = "call"]
    /\ UNCHANGED <<mgrVars, shared, lock, cmd, local, ret, db, started, callVars, httpVars>>

\* The host function returns to the guest: block_in_place hands the worker's
\* other tasks to another thread and block_on drives the request on this
\* one, so the return waits for the remote server only.
http_return(t) ==
    /\ pc[t] = "http"
    /\ pc' = [pc EXCEPT ![t] = "call"]
    /\ UNCHANGED <<mgrVars, shared, lock, cmd, local, ret, db, started, callVars, httpVars>>

\* plugin.fetch(&config).await returns inside test_plugin_fetch.
tpf_return(t) ==
    /\ pc[t] = "call" /\ cmd[t].name = "test_plugin_fetch"
    /\ \E r \in {Ok(l) : l \in RecordLists} \cup {Err("plugin")} :
          Return(t, "test_plugin_fetch", r)
    /\ ReleaseLock(t)
    /\ UNCHANGED <<mgrVars, shared, db, started, callVars, httpVars>>

\* plugin.test_connection(&config).await returns.
tac_return(t) ==
    /\ pc[t] = "call" /\ cmd[t].name = "test_adapter_connection"
    /\ \E r \in {Ok(TRUE), Ok(FALSE), Err("plugin")} :
          Return(t, "test_adapter_connection", r)
    /\ ReleaseLock(t)
    /\ UNCHANGED <<mgrVars, shared, db, started, callVars, httpVars>>

\* plugin.fetch(&config).await returns inside fetch_adapter_data; the guard
\* is dropped where the if block ends.
fad_return(t) ==
    /\ pc[t] = "call" /\ cmd[t].name = "fetch_adapter_data"
    /\ \/ /\ Return(t, "fetch_adapter_data", Err(<<"Plugin fetch failed: ", "plugin">>))
       \/ /\ \E l \in RecordLists :
                local' = [local EXCEPT ![t] = [NoLocal EXCEPT !.records = l]]
          /\ pc' = [pc EXCEPT ![t] = "store"]
          /\ UNCHANGED <<cmd, ret>>
    /\ ReleaseLock(t)
    /\ UNCHANGED <<mgrVars, shared, db, started, callVars, httpVars>>

\* The upsert loop of fetch_adapter_data: the first failing upsert_record
\* ends the command with the earlier records stored.
fad_store(t) ==
    /\ pc[t] = "store"
    /\ \E k \in 0..Len(local[t].records) :
          /\ db' = db \cup {local[t].records[i] : i \in 1..k}
          /\ Return(t, "fetch_adapter_data",
                    IF k = Len(local[t].records) THEN Ok(k) ELSE Err(<<"database">>))
    /\ UNCHANGED <<mgrVars, shared, lock, started, callVars, httpVars>>

NextCmd ==
    \/ Setup
    \/ \E t \in Tasks :
          \/ get_installed_plugins(t)
          \/ reload_plugins(t)
          \/ reload_scan(t)
          \/ reload_return(t)
          \/ get_plugin_info(t)
          \/ unload_plugin_cmd(t)
          \/ test_plugin_fetch(t)
          \/ tac_has_plugin(t)
          \/ fad_has_plugin(t)
          \/ lookup_and_call(t)
          \/ tac_builtin(t)
          \/ fad_no_plugin(t)
          \/ guest_http(t)
          \/ http_return(t)
          \/ tpf_return(t)
          \/ tac_return(t)
          \/ fad_return(t)
          \/ fad_store(t)

SpecCmd == InitCmd /\ [][NextCmd]_vars

\* The entry function of the guest returns to the command that called it.
call_return(t) == tpf_return(t) \/ tac_return(t) \/ fad_return(t)

\* SpecCmd on a multi-worker executor with remote servers that respond:
\* a blocked host function returns, a running guest returns, a task waiting
\* on the mutex gets it once it stays free, and load_plugins runs on.
SpecCmdFair ==
    /\ SpecCmd
    /\ \A t \in Tasks :
          /\ WF_vars(http_return(t))
          /\ WF_vars(call_return(t))
          /\ WF_vars(lookup_and_call(t))
          /\ WF_vars(reload_scan(t) \/ reload_return(t))

(***************************************************************************)
(* Claims about the commands (SpecCmd).                                    *)
(***************************************************************************)
InPluginCall(t) == pc[t] \in {"call", "http"}

\* C2: under every interleaving of fetch_adapter_data or
\* test_adapter_connection with unload_plugin or reload_plugins, the command
\* returns a Result and never panics: expect("Plugin should exist") never
\* fails for a plugin the first locked lookup found.
C2_NeverPanics == \A t \in Tasks : pc[t] # "panicked"

\* C3: while a task is inside a plugin's fetch or test_connection (guest
\* code running or waiting on a guest HTTP call), the manager lock is not
\* held, so another task's manager-level operation can take it.
C3_LockFreeDuringCall == \A t \in Tasks : InPluginCall(t) => lock # t

\* No loaded plugin provides the adapter type: no instance of the plugin
\* table carries it.
NoneProvides(type) ==
    \A n \in DOMAIN plugins : plugins[n].metadata.adapter_type # Some(type)

\* C15: fetch_adapter_data for an adapter type that no loaded plugin
\* provides returns the error "No plugin found for adapter type: <type>.
\* Please install the appropriate plugin.", without calling a plugin or a
\* built-in adapter and without writing a record to the database: the
\* locked lookup sets has_plugin to false, and the next step of the command
\* is its return with that error, the database unchanged.
C15_NoPluginNoFetch ==
    [][\A t \in Tasks :
          /\ (/\ pc[t] = "idle" /\ pc'[t] = "checked"
              /\ cmd'[t].name = "fetch_adapter_data"
              /\ NoneProvides(cmd'[t].arg)) => ~local'[t].has_plugin
          /\ (/\ pc[t] = "checked" /\ pc'[t] # "checked"
              /\ cmd[t].name = "fetch_adapter_data"
              /\ ~local[t].has_plugin) =>
                /\ pc'[t] = "idle"
                /\ ret'.task = t /\ ret'.cmd = "fetch_adapter_data"
                /\ ~ret'.result.ok
                /\ ret'.result.val = NoPluginFound(cmd[t].arg)
                /\ db' = db]_vars

\* fetch_adapter_data has returned the error for a type no plugin provides
\* while plugins are loaded and another command has stored records.
C15_Witness ==
    /\ ret.cmd = "fetch_adapter_data"
    /\ ~ret.result.ok
    /\ \E type \in ConfigTypes :
          /\ ret.result.val = NoPluginFound(type)
          /\ NoneProvides(type)
    /\ DOMAIN plugins # {}
    /\ db # {}

(***************************************************************************)
(* Claims about modules that do not fit the host (SpecCall).               *)
(***************************************************************************)
\* Caller c is in a call, or has returned from one, of a function the
\* module instantiates for but does not export under that name.
MissingEntry(c) ==
    /\ module.imports_ok /\ module.exports_memory
    /\ cin[c].function_name \in HostEntries
    /\ cin[c].function_name \notin module.entries

Fetched(c) ==
    cpc[c] = "idle" /\ mret[c] # None /\ cin[c].function_name = "plugin_fetch"
Tested(c) ==
    cpc[c] = "idle" /\ mret[c] # None /\ cin[c].function_name = "plugin_test_connection"

\* The bytes are the text of a JSON list of records: [] or a list of one
\* object with the members of a StagedRecord around its data.
ListOfRecords(bytes) ==
    LET head == Bytes(<<91>> \o RecordHead)
        tail == Bytes(RecordTail \o <<93>>)
    IN  \/ bytes = Bytes(<<91, 93>>)
        \/ /\ ByteLen(bytes) > ByteLen(head) + ByteLen(tail)
           /\ Norm(TakeBytes(bytes, ByteLen(head))) = head
           /\ Norm(DropBytes(bytes, ByteLen(bytes) - ByteLen(tail))) = tail

\* C17: fetch returns Ok(records) only when call_function returned bytes
\* that decode as a JSON list of StagedRecord; for any other bytes (empty,
\* no JSON, a JSON object such as the {"error": ...} of the adapter
\* template, a list of objects that are no records) it returns the
\* deserialization error and no records; an error of call_function is
\* returned as it is.
C17_FetchOnlyDecodesRecordLists ==
    \A c \in Calls :
        Fetched(c) =>
            LET call == cret[c][1]
                r == mret[c][1]
            IN  /\ r.ok => (call.ok /\ ListOfRecords(call.val))
                /\ (call.ok /\ ~ListOfRecords(call.val)) =>
                      (~r.ok /\ r.val = "Failed to deserialize plugin result")
                /\ ~call.ok => r = call

\* fetch has returned the deserialization error for the error object of the
\* adapter template.
C17_Witness ==
    \E c \in Calls :
        /\ Fetched(c)
        /\ cret[c] = Some(Ok(Bytes(create_error_response("boom"))))
        /\ mret[c] = Some(Err("Failed to deserialize plugin result"))

CStringAt(mem, ptr) ==
    LET rest == DropBytes(mem, ptr)
        z == position_zero(rest)
    IN  IF z = -1 THEN Norm(rest) ELSE Norm(TakeBytes(rest, z))

\* C19: for every AdapterConfig, the bytes the guest finds at the input
\* offset up to the first zero byte when its entry function is called are
\* exactly the JSON serialization of the config, and when the guest returns
\* a list of one StagedRecord whose data is that input, fetch returns a
\* list of one record whose data equals the JSON form of the config.
C19_ConfigRoundTrip ==
    \A c \in Calls : \A config \in AdapterConfigs :
        cin[c].params = to_vec(config) =>
            /\ cpc[c] = "resolved" =>
                  CStringAt(store[c][1].mem, cin[c].input_ptr)
                      = Bytes(value_text(to_value(config), FieldOrder))
            /\ (/\ Fetched(c) /\ cret[c][1].ok
                /\ cret[c][1].val = Norm(Bytes(<<91>> \o RecordHead) \o to_vec(config)
                                         \o Bytes(RecordTail \o <<93>>))) =>
                  /\ mret[c][1].ok
                  /\ Len(mret[c][1].val) = 1
                  /\ mret[c][1].val[1].data = to_value(config)

\* fetch of an echoing guest whose allocator hands out memory that holds
\* non-zero bytes has returned one record whose data is the config with an
\* empty parameters object and a polling interval.
C19_Witness ==
    \E c \in Calls :
        /\ module.entry.kind = "echo" /\ module.has_alloc
        /\ Fetched(c)
        /\ mret[c][1].ok
        /\ Len(mret[c][1].val) = 1
        /\ mret[c][1].val[1].data
              = to_value(AdapterConfig("a2", "s2", "", JObj(EmptyMap), Some(60), FALSE))

\* The task is in the middle of an operation on the manager that takes more
\* than one step: reload_plugins between shutdown_all and the end of
\* load_plugins, or a plugin call made through the borrowed instance.
InsideManager(t) == pc[t] \in {"reloading", "call", "http"}

\* A step in which some task reads the plugin table: a command takes the
\* lock, or the second locked lookup of a checked command runs.
LookupStep ==
    \/ started' # started
    \/ \E u \in Tasks : pc[u] = "checked" /\ pc'[u] \in {"call", "panicked"}

\* C23: at most one task is inside an operation on the manager at any time
\* and it is the holder of the lock; reload_plugins runs shutdown_all and
\* load_plugins under one guard, so that while a reload is between the two
\* (table empty or partly reloaded) no task's lookup reads the table and
\* nobody but the reloading task writes it.
C23_ManagerOperationsExclusive ==
    /\ [](\A t \in Tasks : InsideManager(t) => lock = t)
    /\ [](Cardinality({t \in Tasks : InsideManager(t)}) <= 1)
    /\ [][\A t \in Tasks : pc[t] = "reloading" =>
              /\ ~LookupStep
              /\ (pc'[t] = pc[t] /\ local'[t] = local[t]) => plugins' = plugins]_vars

\* A reload is half done (one package loaded, one still to scan) while
\* another task has passed its first lookup and waits for the lock.
C23_Witness ==
    \E t, u \in Tasks :
        /\ pc[t] = "reloading" /\ local[t].entry = 2 /\ DOMAIN plugins # {}
        /\ pc[u] = "checked" /\ local[u].has_plugin

UnsupportedMethod ==
    /\ hcall.fn = "request" /\ hloc.method # None
    /\ to_uppercase(hloc.method[1]) \notin SupportedMethods

\* C24: http.request sends a request only when the upper-cased method is
\* GET, POST, PUT, DELETE or PATCH, and then it does send, whatever the case
\* the guest wrote it in; with any other method nothing is ever sent and
\* the guest gets a negative return value.
C24_OnlySupportedMethodsSend ==
    /\ [](UnsupportedMethod => net = None)
    /\ [](UnsupportedMethod /\ hpc = "returned" => hret # None /\ hret[1] < 0)
    /\ [][(net = None /\ net' # None) =>
              \/ hcall.fn = "get"
              \/ hloc.method # None /\ to_uppercase(hloc.method[1]) \in SupportedMethods]_vars
    /\ [][(h_send /\ ~UnsupportedMethod) => net' # None]_vars

\* http.request has read every argument, found the method "XYZ" and
\* returned -1 without sending.
C24_Witness ==
    /\ UnsupportedMethod /\ hpc = "returned"
    /\ hloc.method = Some(Bytes(<<88, 89, 90>>))
    /\ hloc.error = Some("transport error")
    /\ hret = Some(-1) /\ net = None

\* The errors call_function returns (AppError::Plugin), named by the fixed
\* part of their message.
PluginErrors ==
    { "Failed to instantiate WASM module", "WASM module does not export memory",
      "Failed to allocate memory", "Failed to write to WASM memory",
      "Failed to write null terminator", "Function not found",
      "Failed to call WASM function", "Failed to read from WASM memory",
      "Plugin result exceeds maximum size" }

\* C26: whatever the guest does during a call (alloc returning an offset
\* anywhere, the entry function returning an offset anywhere, a trap in
\* either, no memory export, host functions called with any arguments),
\* call_function returns Ok(bytes) or a plugin error: the host never
\* panics, and the plugin and manifest tables of the manager stay as they are.
C26_GuestNeverPanicsHost ==
    /\ [](\A c \in Calls : cpc[c] # "panicked")
    /\ [](\A c \in Calls :
            cpc[c] = "returned" =>
                /\ cret[c] # None
                /\ IF cret[c][1].ok THEN cret[c][1].val \in Seq([n : Nat, b : 0..255])
                   ELSE cret[c][1].val \in PluginErrors)
    /\ [][plugins' = plugins /\ manifests' = manifests]_vars

\* The steps of one call in the order of the statements of call_function:
\* the label a step may lead to from each label; "returned" is the return
\* of an Err or of the Ok at the end.
StepOrder ==
    { <<"idle", "entered">>, <<"entered", "instantiated">>,
      <<"instantiated", "have_memory">>, <<"have_memory", "allocated">>,
      <<"allocated", "input_written">>, <<"input_written", "nul_written">>,
      <<"nul_written", "resolved">>, <<"resolved", "reading">>,
      <<"resolved", "panicked">>, <<"reading", "reading">>,
      <<"reading", "read_done">>, <<"read_done", "returned">>,
      <<"returned", "idle">> }
    \cup { <<l, "returned">> : l \in {"entered", "instantiated", "have_memory", "allocated",
                                      "input_written", "nul_written", "resolved",
                                      "reading"} }

\* The memory of call c holds the input followed by a zero byte at input_ptr.
InputInPlace(c) ==
    Memory_read(store[c][1].mem, cin[c].input_ptr, ByteLen(cin[c].params) + 1)
        = Ok(Norm(cin[c].params \o <<Run(1, 0)>>))

\* C28: within one call the steps follow the order instantiate, input
\* offset, write of the input, write of its terminator, lookup and call of
\* the entry function, read of the result, free. The entry function runs
\* only with the input and its zero byte in place, free_string runs only
\* once the result has been read, and after a step has failed the call does
\* nothing but return: no guest code runs and no memory is written.
C28_StepsInOrder ==
    [][\A c \in Calls :
          /\ (cpc'[c] # cpc[c] \/ rd'[c] # rd[c]) => <<cpc[c], cpc'[c]>> \in StepOrder
          /\ (cpc[c] = "resolved" /\ cpc'[c] # "resolved") => InputInPlace(c)
          /\ (store[c] # None /\ store'[c] # None
                /\ store'[c][1].freed # store[c][1].freed) =>
                (cpc[c] = "read_done" /\ rd'[c] = rd[c])
          /\ cpc[c] = "returned" =>
                /\ cret'[c] = cret[c]
                /\ store'[c] \in {store[c], None}
                /\ cpc'[c] \in {"returned", "idle"}]_vars

\* The entry function has run on its input and free_string after the read.
C28_Witness ==
    \E c \in Calls :
        /\ cpc[c] = "returned" /\ cret[c] # None /\ cret[c][1].ok
        /\ module.has_alloc /\ InputInPlace(c)
        /\ Len(store[c][1].freed) = 1

\* The guest memory reaches beyond the input and its terminator written at
\* the fallback offset.
FallbackFits(c) ==
    ByteLen(module.image) >= FALLBACK_OFFSET + ByteLen(cin[c].params) + 1

WriteErrors ==
    { "Failed to allocate memory", "Failed to write to WASM memory",
      "Failed to write null terminator" }

\* C29 as stated: when the guest exports no alloc the call never fails on
\* the way to the entry function: input and terminator are written at 1024
\* and the entry function is invoked with 1024.
C29_FallbackNeverFails ==
    \A c \in Calls :
        (~module.has_alloc /\ cpc[c] = "returned" /\ ~cret[c][1].ok) =>
            cret[c][1].val \notin WriteErrors

\* C29, amended: when the guest exports no alloc, call_function never
\* returns the allocation error and uses the offset 1024; when the guest's
\* memory reaches beyond 1024 + params.len(), input and terminator are
\* written there without error and the entry function is invoked with 1024
\* and finds them.
C29_FallbackWhenMemoryReaches ==
    \A c \in Calls :
        ~module.has_alloc =>
            /\ (cpc[c] = "returned" /\ ~cret[c][1].ok) =>
                  /\ cret[c][1].val # "Failed to allocate memory"
                  /\ FallbackFits(c) => cret[c][1].val \notin WriteErrors
            /\ cpc[c] \in {"allocated", "input_written", "nul_written", "resolved",
                           "reading", "read_done"} =>
                  cin[c].input_ptr = FALLBACK_OFFSET
            /\ cpc[c] = "resolved" =>
                  /\ FallbackFits(c)
                  /\ InputInPlace(c)

\* A guest without alloc is about to be entered with 1024, where the input
\* and its zero byte are.
C29_Witness ==
    \E c \in Calls :
        /\ ~module.has_alloc /\ cpc[c] = "resolved"
        /\ cin[c].input_ptr = FALLBACK_OFFSET /\ FALLBACK_OFFSET = 1024
        /\ InputInPlace(c)

\* C30: a call that returns Ok returns the bytes the read loop produced,
\* and by then free_string, when the guest exports it, has been invoked
\* exactly once, with the offset the entry function returned, whether it
\* trapped or not; without the export it has not been invoked. At no other
\* point of a call has it been invoked, and a call whose result has been
\* read returns Ok.
C30_FreeOnceAfterRead ==
    /\ [](\A c \in Calls :
            store[c] # None =>
                IF cpc[c] = "returned" /\ cret[c][1].ok
                THEN /\ cret[c][1].val = rd[c].result
                     /\ IF module.has_free_string
                        THEN /\ Len(store[c][1].freed) = 1
                             /\ store[c][1].freed[1].ptr = cin[c].result_ptr[1]
                        ELSE store[c][1].freed = <<>>
                ELSE store[c][1].freed = <<>>)
    /\ [][\A c \in Calls :
             (cpc[c] = "read_done" /\ cpc'[c] # "read_done") =>
                 /\ cpc'[c] = "returned"
                 /\ cret'[c] = Some(Ok(rd[c].result))]_vars

\* free_string has trapped and the call has returned the bytes it read.
C30_Witness ==
    \E c \in Calls :
        /\ cpc[c] = "returned" /\ cret[c] = Some(Ok(rd[c].result))
        /\ rd[c].result # <<>>
        /\ store[c][1].freed = <<[ptr |-> cin[c].result_ptr[1], trapped |-> TRUE]>>

\* call c has returned the error of the size cap.
TooLarge(c) ==
    /\ cpc[c] = "returned" /\ cret[c] # None
    /\ ~cret[c][1].ok
    /\ cret[c][1].val = "Plugin result exceeds maximum size"

\* C31: a result of L bytes with its terminator inside guest memory is
\* rejected as too large only when L exceeds MAX_RESULT_SIZE, and then it
\* is: a result of L <= MAX_RESULT_SIZE bytes never meets the cap error.
C31_CapIsInclusive ==
    \A c \in Calls :
        (PastEntry(c) /\ InsideMemory(c) /\ Terminated(c) /\ cpc[c] = "returned") =>
            /\ TooLarge(c) => RunLength(c) > MAX_RESULT_SIZE
            /\ RunLength(c) > MAX_RESULT_SIZE => TooLarge(c)

\* The names of the packages the plugin directory holds: directories whose
\* manifest.json parses.
PresentNames(entries) ==
    {entries[i].manifest.name :
        i \in {j \in 1..Len(entries) : entries[j].isDir /\ entries[j].manifestFile = "ok"}}

\* The names load_plugin registered an instance for, among the entries a
\* scan loaded.
BackendNames(entries, loaded) ==
    {entries[i].manifest.name : i \in {j \in loaded : HasBackend(entries[j])}}

\* C32: after reload_plugins the registry reflects the current scan only:
\* the plugin table holds exactly the backend packages that loaded in this
\* scan, and get_all_plugins lists no package that is not in the directory.
C32_ReloadReflectsScan ==
    (lastOp.op = "reload_plugins" /\ lastOp.result.ok) =>
        /\ DOMAIN plugins = BackendNames(dirEntries, lastOp.loaded)
        /\ \A k \in DOMAIN get_all_plugins(plugins, manifests) :
              get_all_plugins(plugins, manifests)[k].name \in PresentNames(dirEntries)

\* C33: a load_plugins that directly follows a load_plugins, the plugin
\* directory being the same, returns the count the first returned and
\* leaves the names (and the entries) of both tables as the first left
\* them; get_all_plugins lists the same names, each once.
C33_SecondLoadSame ==
    [][(LoadPlugins /\ lastOp.op = "load_plugins") =>
          /\ lastOp'.result = lastOp.result
          /\ DOMAIN plugins' = DOMAIN plugins
          /\ DOMAIN manifests' = DOMAIN manifests
          /\ plugins' = plugins /\ manifests' = manifests
          /\ DOMAIN get_all_plugins(plugins', manifests')
                = DOMAIN get_all_plugins(plugins, manifests)]_vars

\* A second load_plugins in a row has found two packages again and counted
\* two.
C33_Witness ==
    /\ lastOp.op = "load_plugins" /\ lastOp.prevOp = "load_plugins"
    /\ lastOp.result = Ok(2)
    /\ Cardinality(DOMAIN plugins) = 2
    /\ lastOp.pluginsBefore = plugins /\ lastOp.manifestsBefore = manifests

\* C34: in every state reached by load_plugins, unload_plugin, shutdown_all
\* and reload_plugins in any order, every name with a plugin instance has a
\* manifest entry, and get_all_plugins returns one entry per manifest name,
\* carrying that name.
C34_InstancesHaveManifests ==
    /\ DOMAIN plugins \subseteq DOMAIN manifests
    /\ \A n \in DOMAIN plugins : plugins[n].metadata.name = n
    /\ DOMAIN get_all_plugins(plugins, manifests) = DOMAIN manifests
    /\ \A k \in DOMAIN manifests : get_all_plugins(plugins, manifests)[k].name = k

\* After a reload one name has an instance and another has only a manifest.
C34_Witness ==
    /\ lastOp.op = "reload_plugins"
    /\ Cardinality(DOMAIN plugins) = 1
    /\ Cardinality(DOMAIN manifests) = 2
    /\ DOMAIN plugins \subseteq DOMAIN manifests

\* The offsets of guest memory the host has written so far while passing
\* the input of call c.
InputWrites(c) ==
    CASE cpc[c] = "input_written" ->
            cin[c].input_ptr .. (cin[c].input_ptr + ByteLen(cin[c].params) - 1)
      [] cpc[c] \in {"nul_written", "resolved"} ->
            cin[c].input_ptr .. (cin[c].input_ptr + ByteLen(cin[c].params))
      [] OTHER -> {}

\* C35: when the guest exports alloc, every byte the host writes while
\* passing the input (params and the zero byte behind them) lies inside
\* the block alloc returned for the size the host asked for.
C35_InputInsideBlock ==
    \A c \in Calls :
        (module.has_alloc /\ cin[c].alloc_arg # None) =>
            \A offset \in InputWrites(c) :
                /\ cin[c].input_ptr <= offset
                /\ offset < cin[c].input_ptr + cin[c].alloc_arg[1]

\* C36: a load_plugin that returns an error leaves both tables as they
\* were, so a package that failed to load is not listed by get_all_plugins:
\* after a scan in which every load_plugin returned an error, the plugin
\* table, the manifest table and the listing are the ones from before.
C36_FailedLoadLeavesTables ==
    (AfterLoadPlugins /\ lastOp.visited # {} /\ lastOp.loaded = {}) =>
        /\ plugins = lastOp.pluginsBefore
        /\ manifests = lastOp.manifestsBefore
        /\ get_all_plugins(plugins, manifests)
              = get_all_plugins(lastOp.pluginsBefore, lastOp.manifestsBefore)

\* The names get_all_plugins lists.
ListedNames(pl, mf) ==
    {get_all_plugins(pl, mf)[k].name : k \in DOMAIN get_all_plugins(pl, mf)}

\* The names whose instance the last unload_plugin or shutdown_all removed.
RemovedNames ==
    IF lastOp.op = "unload_plugin"
    THEN {lastOp.name} \cap DOMAIN lastOp.pluginsBefore
    ELSE lastOp.attempted

\* C37: unload_plugin and shutdown_all remove plugin instances only: the
\* manifest table after either is the one from before, get_all_plugins
\* still lists every name discovered before, and get_plugin returns None
\* for each removed instance.
C37_RemovalKeepsManifests ==
    lastOp.op \in {"unload_plugin", "shutdown_all"} =>
        /\ manifests = lastOp.manifestsBefore
        /\ DOMAIN plugins = DOMAIN lastOp.pluginsBefore \ RemovedNames
        /\ ListedNames(plugins, manifests) = DOMAIN lastOp.manifestsBefore
        /\ ListedNames(plugins, manifests)
              = ListedNames(lastOp.pluginsBefore, lastOp.manifestsBefore)
        /\ \A n \in RemovedNames : get_plugin(plugins, n) = None

\* An instance was removed and its package is still listed.
C37_Witness ==
    /\ lastOp.op \in {"unload_plugin", "shutdown_all"}
    /\ \E n \in RemovedNames :
          /\ get_plugin(lastOp.pluginsBefore, n) # None
          /\ get_plugin(plugins, n) = None
          /\ n \in ListedNames(plugins, manifests)
    /\ Cardinality(DOMAIN manifests) = 2

\* Guest memory holds what it held when the guest called, but for the
\* response bytes and the zero byte behind them where those were written.
OnlyResponseWrites ==
    \/ guest.mem = HttpImage
    \/ /\ hloc.result # None /\ hloc.result_ptr # None
       /\ LET at == as_usize(hloc.result_ptr[1])
              w1 == Memory_write_at(HttpImage, at, hloc.result[1])
          IN  /\ w1.ok
              /\ \/ guest.mem = w1.val
                 \/ LET w2 == Memory_write_at(
                                 w1.val,
                                 [at EXCEPT !.low = at.low + ByteLen(hloc.result[1])],
                                 <<Run(1, 0)>>)
                    IN  w2.ok /\ guest.mem = w2.val

\* The output cell lies in guest memory and outside the block the guest's
\* alloc returned, if it returned one.
CellApart ==
    /\ hcall.result_ptr_ptr >= 0
    /\ hcall.result_ptr_ptr + 4 <= ByteLen(guest.mem)
    /\ \/ hloc.result_ptr = None
       \/ Disjoint(hcall.result_ptr_ptr, 4,
                   hloc.result_ptr[1], ByteLen(hloc.result[1]) + 1)

\* C38: when http.get or http.request returns a negative value, the pointer
\* has not been stored in the output cell: the only writes to guest memory
\* were those of the response and its zero byte, and the cell holds the
\* bytes it held at the call; the pointer store is the last write, after
\* it the function only returns the non-negative length.
C38_NoPointerOnFailure ==
    /\ [](hpc = "returned" /\ hret # None /\ hret[1] < 0 =>
            /\ OnlyResponseWrites
            /\ CellApart =>
                  Memory_read(guest.mem, hcall.result_ptr_ptr, 4)
                     = Memory_read(HttpImage, hcall.result_ptr_ptr, 4))
    /\ [][hpc = "ptr_written" =>
            /\ hpc' = "returned"
            /\ hret' = Some(ByteLen(hloc.result[1]))
            /\ hret'[1] >= 0
            /\ guest' = guest]_vars

\* A call failed after the response was written: -1 is returned and the
\* output cell at 3000 holds what it held at the call.
C38_Witness ==
    /\ hpc = "returned" /\ hret = Some(-1)
    /\ hloc.result_ptr # None
    /\ guest.mem # HttpImage
    /\ hcall.result_ptr_ptr = 3000
    /\ Memory_read(guest.mem, 3000, 4) = Memory_read(HttpImage, 3000, 4)

\* The bytes of a run-length sequence, one by one.
RECURSIVE PlainBytes(_)
PlainBytes(x) ==
    IF x = <<>> THEN <<>>
    ELSE [i \in 1..x[1].n |-> x[1].b] \o PlainBytes(Tail(x))

RECURSIVE DecimalValue(_)
DecimalValue(d) ==
    IF d = <<>> THEN 0
    ELSE 10 * DecimalValue(SubSeq(d, 1, Len(d) - 1)) + (d[Len(d)] - 48)

\* The number the response JSON holds under "status", its last key.
StatusOf(json) ==
    LET p == PlainBytes(json)
        colon == CHOOSE i \in 1..Len(p) :
                    p[i] = 58 /\ \A j \in (i + 1)..Len(p) : p[j] # 58
    IN  DecimalValue(SubSeq(p, colon + 1, Len(p) - 1))

\* C39: a response with any status code, 4xx and 5xx included, makes
\* make_http_request_sync return the JSON with that status, the headers and
\* the body, and the call that delivers it returns its non-negative length;
\* make_http_request_sync returns an error only for an unsupported method
\* or when the request fails in transport.
C39_AnyStatusDelivered ==
    /\ [][(hpc = "awaiting" /\ hpc' # "awaiting") =>
            IF net[1].server = "responds"
            THEN /\ hpc' = "have_result" /\ hret' = None
                 /\ \E r \in Responses :
                       /\ hloc'.result = Some(response_json(r.status, r.body))
                       /\ StatusOf(hloc'.result[1]) = r.status
            ELSE hret' # None /\ hret'[1] < 0]_vars
    /\ [][(hloc.error = None /\ hloc'.error = Some("transport error")) =>
            \/ UnsupportedMethod
            \/ hpc = "awaiting" /\ net[1].server # "responds"]_vars
    /\ [](hpc = "returned" /\ hret # None /\ hret[1] >= 0 =>
            /\ hret[1] = ByteLen(hloc.result[1])
            /\ StatusOf(hloc.result[1]) \in {r.status : r \in Responses})

\* The server answered 404 and the call returned the length of the JSON
\* that carries the status 404, written where the stored pointer points.
C39_Witness ==
    /\ hpc = "returned" /\ hret # None /\ hret[1] > 0
    /\ hloc.result = Some(response_json(404, <<>>))
    /\ StatusOf(hloc.result[1]) = 404
    /\ hloc.result_ptr # None /\ hloc.result_ptr[1] >= 0
    /\ Memory_read(guest.mem, hloc.result_ptr[1], hret[1]) = Ok(hloc.result[1])
    /\ hcall.result_ptr_ptr = 3000
    /\ LittleEndianAt(guest.mem, 3000) = hloc.result_ptr[1]

====
